---- MODULE Spec2Model ----
(***************************************************************************)
(* A model of the Ali XML pull reader (Platformer/ali.cpp): the document   *)
(* buffer, the stack of element frames with their markup caches, the       *)
(* scanner, the markup enumerator, the content decoder and the format      *)
(* driven binder ali_in, with %F callbacks as nested activations.          *)
(*                                                                         *)
(* Pointers into the document text are 1-based indices; NulPos is the      *)
(* index of the terminating NUL (doc->last_valid_char).  A longjmp to      *)
(* doc->environment is the flag "jumped" of the machine record that the    *)
(* operators thread through one step of a query.                           *)
(***************************************************************************)
EXTENDS Integers, Sequences, FiniteSets, TLC

(***************************************************************************)
(* Program constants                                                       *)
(***************************************************************************)
tag_none == 2
tag_element == 3
tag_attribute == 4
tag_comment == 5
tag_instruction == 6

ali_element_max == 16
ali_element_none == ali_element_max

ALI_ERROR_NONE == 0
ALI_ERROR_TAG_MISSING == 1
ALI_ERROR_CONTENT_MISSING == 2
ALI_ERROR_MEMORY_FAILURE == 4
ALI_ERROR_ELEMENT_INVALID == 5
ALI_ERROR_TAG_INVALID == 6
ALI_ERROR_NAMESPACE_INVALID == 7
ALI_ERROR_DATA_INCOMPLETE == 8
ALI_ERROR_UNKNOWN_XML_INSTRUCTION == 12
ALI_ERROR_NULL_TAG == 13
ALI_ERROR_FILE_MISSING == 3
ALI_ERROR_ENCODING_UNSUPPORTED == 9
ALI_ERROR_XML_DECLARATION_INVALID == 10
ALI_ERROR_NOT_XML_DOCUMENT == 11

ALI_OPTION_NONE == 0
ALI_OPTION_INPUT_XML_DECLARATION == 2

endian_unknown == 0
endian_native == 1
endian_swapped == 2

encoding_unknown == 0
encoding_UTF_8 == 1
encoding_ISO_8859_N == 2
encoding_US_ASCII == 3
encoding_UTF_16 == 4
encoding_UTF_16_SWAPPED == 5
encoding_UTF_32 == 6
encoding_UTF_32_SWAPPED == 7
encoding_EBCDIC == 8
encoding_supported(x) == x <= encoding_US_ASCII

(***************************************************************************)
(* Bounds of the model                                                     *)
(***************************************************************************)
\* number of API calls the host issues over the lifetime of one document
MaxCalls == 4
\* number of times one %F loop invokes its callback before the model stops
MaxPasses == 3
\* the modulus of the unsigned sizes: the model counts modulo 2^30 where the
\* program counts modulo 2^32, both far above every length in a document,
\* so that a size that wraps below 0 exceeds every count it is compared to
Wrap32 == 1073741824

(***************************************************************************)
(* Characters and strings                                                  *)
(***************************************************************************)
NUL == "NUL"
Chars(s) == [i \in 1..Len(s) |-> SubSeq(s, i, i)]

Digits == {"0", "1", "2", "3", "4", "5", "6", "7", "8", "9"}
Blank == {" ", "\t"}
Whitespace == {" ", "\t", "\n", "\r"}

Min(S) == CHOOSE x \in S : \A y \in S : x <= y

\* the element of a singleton: Only({e : x \in {v}}) is e with x standing
\* for the value of v, a local variable assigned once
Only(S) == CHOOSE x \in S : TRUE

VARIABLES
  text,          \* doc->text: the characters of the document, without the NUL
  elements,      \* doc->elements[0 .. elements_count-1], bottom frame first
  current,       \* doc->current_element as an index into elements, 0 = NULL
  error,         \* doc->error
  next_element,  \* doc->next_element
  environment,   \* doc->environment: the call that last ran setjmp, and the
                 \* depth of its activation
  dest,          \* the host variables that conversions write to
  calls,         \* activations of ali_in in flight, outermost first
  ret,           \* value returned by the call that returned last
  ncalls,        \* number of calls of the API the host has issued so far
  last,          \* the API call that returned last, and the state it began in
  returned,      \* TRUE in the state an API call has just returned to the host
  crashed,       \* the process has ended in a fault
  queries,       \* the ali_in calls the host program contains
  uninit,        \* what an uninitialised local of decode_string holds
  overrun,       \* what a write behind the end of an array of a frame does
  options,       \* doc->options
  encoding,      \* doc->encoding
  root,          \* what ali_open returned to the host
  beat,          \* flips at every step the library takes in a call in flight
  list,          \* a List<T> of the game: its nodes, head, tail and listsize,
                 \* and the member function that ran last
  game           \* the GameManager: msgs, objs and the Msg objects on the heap

vars == <<text, elements, current, error, next_element, environment, dest,
          calls, ret, ncalls, last, returned, crashed, queries, uninit,
          overrun, options, encoding, root, beat, list, game>>

\* the variables of the XML reader
document == <<text, elements, current, error, next_element, environment, dest,
              calls, ret, ncalls, last, returned, crashed, queries, uninit,
              overrun, options, encoding, root, beat>>

\* how a List<T> stands: the Element<T> nodes allocated so far (node k is
\* heap[k]; obj is the UID() of the object it holds), head and tail (0 is
\* NULL), listsize; what the member function called last was given and
\* returned, whether it read through a NULL node, the calls made so far that
\* allocate no node, and the list the call began with
ListOf(heap, head, tail, listsize) ==
  [heap |-> heap, head |-> head, tail |-> tail, listsize |-> listsize]
NoList ==
  [heap |-> <<>>, head |-> 0, tail |-> 0, listsize |-> 0, fault |-> FALSE,
   op |-> "List", uid |-> 0, result |-> 0, null |-> FALSE, calls |-> 0,
   pre |-> ListOf(<<>>, 0, 0, 0)]

\* the GameManager before any message is made: msgs and objs are the
\* sequences of what the lists hold; heap[k] is the k-th Msg allocated
NoGame ==
  [msgs |-> <<>>, objs |-> <<>>, heap |-> <<>>, handled |-> <<>>,
   fault |-> FALSE, op |-> "GameManager"]

\* the game has not touched its lists
Idle == list = NoList /\ game = NoGame

(***************************************************************************)
(* Document buffer                                                         *)
(***************************************************************************)
NulPos == Len(text) + 1

\* *p for a pointer the code reads without deref(): the text, its NUL, and
\* NUL again for the bytes behind it (the code only reads those behind a
\* test that has already seen the NUL)
at(p) == IF p >= 1 /\ p <= Len(text) THEN text[p] ELSE NUL

\* deref() longjmps when c > doc->last_valid_char
Valid(p) == p <= NulPos

\* strncmp(a, &text[p], n) == 0 for a NUL terminated string a
RECURSIVE strncmp_eq(_, _, _, _)
strncmp_eq(a, k, p, n) ==
  IF n = 0 THEN TRUE
  ELSE LET ca == IF k <= Len(a) THEN a[k] ELSE NUL
       IN IF ca # at(p) THEN FALSE
          ELSE IF ca = NUL THEN TRUE
          ELSE strncmp_eq(a, k + 1, p + 1, n - 1)

\* strncmp(&text[q], &text[p], n) == 0, both in the document
RECURSIVE strncmp_txt(_, _, _)
strncmp_txt(q, p, n) ==
  IF n = 0 THEN TRUE
  ELSE IF at(q) # at(p) THEN FALSE
  ELSE IF at(q) = NUL THEN TRUE
  ELSE strncmp_txt(q + 1, p + 1, n - 1)

(***************************************************************************)
(* The machine record m of one step: the document state a query works on.  *)
(*   els, cur, error, next, dest as the variables; jumped = a longjmp to   *)
(*   doc->environment was taken and the rest of the query is skipped.      *)
(***************************************************************************)
Jump(m, err) == [m EXCEPT !.error = err, !.jumped = TRUE]

\* a read or write through a NULL pointer ends the process
Crash(m) == [m EXCEPT !.crashed = TRUE, !.jumped = TRUE]

\* deref(doc, c) for the accesses that can fail: the machine after the test
deref(m, c) == IF Valid(c) THEN m ELSE Jump(m, ALI_ERROR_DATA_INCOMPLETE)

(***************************************************************************)
(* Lexical scanner                                                         *)
(***************************************************************************)
\* the loop of skip_whitespace: c, the line feed flag and the lines counted
RECURSIVE ws_run(_, _, _)
ws_run(c, last_char_was_linefeed, lines) ==
  LET safe_c == at(c)
  IN IF safe_c = "\r"
       THEN ws_run(c + 1, last_char_was_linefeed,
                   IF last_char_was_linefeed THEN lines ELSE lines + 1)
     ELSE IF safe_c = "\n" THEN ws_run(c + 1, TRUE, lines + 1)
     ELSE IF safe_c \in Blank THEN ws_run(c + 1, TRUE, lines)
     ELSE [c |-> c, lines |-> lines]

skip_whitespace(m, i) ==
  IF m.jumped THEN m
  ELSE IF ~Valid(m.els[i].pos) THEN Jump(m, ALI_ERROR_DATA_INCOMPLETE)
  ELSE LET r == ws_run(m.els[i].pos, FALSE, 0)
       IN [m EXCEPT !.els[i].pos = r.c,
                    !.els[i].line_number = @ + r.lines]

\* skip_dtd: the machine and whether a DOCTYPE was skipped
skip_dtd(m, i) ==
  LET pos == m.els[i].pos
  IN IF m.jumped THEN [m |-> m, found |-> FALSE]
     ELSE IF strncmp_eq(Chars("<!DOCTYPE"), 1, pos, 9)
       THEN LET c == Min({q \in (pos + 9)..NulPos : at(q) \in {NUL, ">"}})
            IN [m |-> [m EXCEPT !.els[i].pos = c], found |-> TRUE]
     ELSE [m |-> m, found |-> FALSE]

skip_to_end_of_comment(m, i) ==
  LET pos == m.els[i].pos
  IN IF m.jumped THEN m
     ELSE IF ~Valid(pos) THEN Jump(m, ALI_ERROR_DATA_INCOMPLETE)
     ELSE LET c == Min({q \in pos..NulPos :
                          \/ at(q) = NUL
                          \/ at(q) = "-" /\ at(q + 1) = "-" /\ at(q + 2) = ">"})
          IN [m EXCEPT !.els[i].pos = c + 3]

skip_to_end_of_processing_instruction(m, i) ==
  LET pos == m.els[i].pos
  IN IF m.jumped THEN m
     ELSE IF ~Valid(pos) THEN Jump(m, ALI_ERROR_DATA_INCOMPLETE)
     ELSE LET c == Min({q \in pos..NulPos :
                          at(q) = NUL \/ (at(q) = "?" /\ at(q + 1) = ">")})
          IN [m EXCEPT !.els[i].pos = c + 2]

\* the Name characters of skip_element_tag that the documents can hold
AsciiLetters ==
  {"a", "b", "c", "d", "e", "f", "g", "h", "i", "j", "k", "l", "m",
   "n", "o", "p", "q", "r", "s", "t", "u", "v", "w", "x", "y", "z",
   "A", "B", "C", "D", "E", "F", "G", "H", "I", "J", "K", "L", "M",
   "N", "O", "P", "Q", "R", "S", "T", "U", "V", "W", "X", "Y", "Z"}
NameStartChar == AsciiLetters \cup {"_", ":"}
NameChar == NameStartChar \cup {".", "-"} \cup Digits

\* what may follow a name without an error being set
AfterName == {">", "=", " ", "\t", "\n", "\r"}

\* skip_element_tag: the machine, and the length it stores through *length
skip_element_tag(m, i) ==
  LET pos == m.els[i].pos
  IN IF m.jumped THEN [m |-> m, length |-> 0]
     ELSE IF ~Valid(pos)
       THEN [m |-> Jump(m, ALI_ERROR_DATA_INCOMPLETE), length |-> 0]
     ELSE LET c == IF at(pos) \notin NameStartChar THEN pos
                   ELSE Min({q \in (pos + 1)..NulPos : at(q) \notin NameChar})
              tag_length == c - pos
              safe_c == at(c)
              m1 == [m EXCEPT !.els[i].pos = c]
              m2 == IF tag_length = 0 \/ safe_c \notin AfterName
                      THEN [m1 EXCEPT !.error =
                              IF safe_c = NUL THEN ALI_ERROR_DATA_INCOMPLETE
                              ELSE ALI_ERROR_TAG_INVALID]
                    ELSE m1
          IN [m |-> skip_whitespace(m2, i), length |-> tag_length]

skip_end_tag(m, i) ==
  Only({ LET pos == m1.els[i].pos
         IN IF m1.jumped THEN m1
            ELSE IF at(pos) = "<" /\ at(pos + 1) = "/"
              THEN Only({ IF m2.jumped THEN m2
                          ELSE [m2 EXCEPT !.els[i].pos = @ + 1] :
                          m2 \in {skip_element_tag(
                                    [m1 EXCEPT !.els[i].pos = pos + 2], i).m} })
            ELSE IF at(pos) = "/" /\ at(pos + 1) = ">"
              THEN [m1 EXCEPT !.els[i].pos = pos + 2]
            ELSE m1 :
         m1 \in {skip_whitespace(m, i)} })

\* the scan loop of skip_content from c: where it stops, or that it jumped
RECURSIVE content_run(_, _, _, _, _, _)
content_run(c0, name, length, open_start, open_end, can_be_empty) ==
  LET \* the characters the loop only steps over: no NUL, no '<' that
      \* starts an end tag of name, a comment or a start tag of name and,
      \* while can_be_empty holds, no '<' and no '/>'
      stop(q) ==
        \/ at(q) = NUL
        \/ /\ at(q) = "<"
           /\ \/ can_be_empty
              \/ at(q + 1) = "/" /\ strncmp_txt(name, q + 2, length)
              \/ at(q + 1) = "!" /\ at(q + 2) = "-" /\ at(q + 3) = "-"
              \/ strncmp_txt(name, q + 1, length)
        \/ can_be_empty /\ at(q) = "/" /\ at(q + 1) = ">"
      c == IF c0 > NulPos THEN c0 ELSE Min({q \in c0..NulPos : stop(q)})
      safe_c == at(c)
  IN IF safe_c = NUL THEN [c |-> c, jumped |-> FALSE]
     ELSE IF safe_c = "<"
       THEN IF at(c + 1) = "/" /\ strncmp_txt(name, c + 2, length)
              THEN IF open_end + 1 > open_start
                     THEN [c |-> c, jumped |-> FALSE]
                   ELSE content_run(c + 1 + length + 1, name, length,
                                    open_start, open_end + 1, FALSE)
            ELSE IF at(c + 1) = "!" /\ at(c + 2) = "-" /\ at(c + 3) = "-"
              THEN LET e == Min({q \in (c + 4)..NulPos :
                                  \/ at(q) = NUL
                                  \/ /\ at(q) = "-" /\ at(q + 1) = "-"
                                     /\ at(q + 2) = ">"})
                   IN IF at(e) = NUL THEN [c |-> e, jumped |-> FALSE]
                      ELSE content_run(e + 3, name, length,
                                       open_start, open_end, FALSE)
            ELSE IF strncmp_txt(name, c + 1, length)
              THEN LET gts == {q \in (c + length + 1)..NulPos : at(q) = ">"}
                   IN IF gts = {} THEN [c |-> c, jumped |-> TRUE]
                      ELSE LET e == Min(gts)
                           IN content_run(e + 1, name, length,
                                IF at(e - 1) # "/" THEN open_start + 1
                                ELSE open_start,
                                open_end, FALSE)
            ELSE content_run(c + 1, name, length, open_start, open_end, FALSE)
     ELSE [c |-> c, jumped |-> FALSE]

skip_content(m, i, name, length) ==
  IF m.jumped THEN m
  ELSE IF ~Valid(m.els[i].pos) THEN Jump(m, ALI_ERROR_DATA_INCOMPLETE)
  ELSE Only({ IF r.jumped THEN Jump(m, ALI_ERROR_DATA_INCOMPLETE)
              ELSE [m EXCEPT !.els[i].pos = r.c] :
              r \in {content_run(m.els[i].pos, name, length, 0, 0, TRUE)} })

(***************************************************************************)
(* Markup enumerator                                                       *)
(***************************************************************************)
\* element->markup_*[element->count] = ...; element->count++ and the
\* last_markup_* fields, as read_one_markup records one item
record_markup(m, i, name, length, type) ==
  IF m.els[i].count >= ali_element_max /\ overrun = "fault" THEN Crash(m)
  ELSE
  [m EXCEPT !.els[i].markup_name = Append(@, name),
            !.els[i].markup_length = Append(@, length),
            !.els[i].markup_type = Append(@, type),
            !.els[i].count = @ + 1,
            !.els[i].last_markup_name = name,
            !.els[i].last_markup_name_length = length,
            !.els[i].type_of_last_markup_read = type]

\* the first part of read_one_markup: finish the item enumerated last
finish_content(m, i) ==
  LET e == m.els[i]
  IN Only({
       IF m0.jumped THEN m0
       ELSE IF e.type_of_last_markup_read = tag_attribute
         THEN Only({
                IF m2.jumped THEN m2
                ELSE LET p == m2.els[i].pos
                         terminator == at(p)
                         m3 == [m2 EXCEPT !.els[i].pos = p + 1]
                     IN IF ~Valid(p + 1)
                          THEN Jump(m3, ALI_ERROR_DATA_INCOMPLETE)
                        ELSE LET q == Min({q \in (p + 1)..NulPos :
                                             at(q) \in {terminator, NUL}})
                             IN [m3 EXCEPT !.els[i].pos = q + 1] :
                m2 \in {skip_whitespace(
                          [skip_whitespace(m0, i) EXCEPT !.els[i].pos = @ + 1],
                          i)} })
       ELSE IF e.type_of_last_markup_read = tag_element
         THEN LET c == Min({q \in (m0.els[i].pos)..NulPos :
                              at(q) \in {NUL, ">"}})
              IN IF at(c) = ">" /\ at(c - 1) = "/"
                   THEN [m0 EXCEPT !.els[i].pos = c + 1]
                 ELSE skip_end_tag(
                        skip_content(
                          [m0 EXCEPT !.els[i].pos =
                             IF at(c) = ">" THEN c + 1 ELSE c],
                          i, e.last_markup_name, e.last_markup_name_length),
                        i)
       ELSE IF e.type_of_last_markup_read = tag_comment
         THEN skip_to_end_of_comment(m0, i)
       ELSE IF e.type_of_last_markup_read = tag_instruction
         THEN skip_to_end_of_processing_instruction(m0, i)
       ELSE m0 :
       m0 \in {skip_whitespace(
                 [m EXCEPT !.els[i].pos =
                    e.last_markup_name + e.last_markup_name_length], i)} })

\* the do-while loop of read_one_markup; ret = "false" for its two
\* 'return false', "end" when the loop was left by break or by its condition
RECURSIVE find_next_markup(_, _, _)
find_next_markup(m, i, starting_pos) ==
  Only({
    LET pos == m0.els[i].pos
        safe_c == at(pos)
        again(mm, sp) == IF mm.jumped \/ ~(mm.els[i].pos < NulPos)
                           THEN [m |-> mm, ret |-> "end"]
                         ELSE find_next_markup(mm, i, sp)
    IN IF m0.jumped THEN [m |-> m0, ret |-> "end"]
       ELSE IF safe_c = "<" /\ at(pos + 1) = "/"
         THEN [m |-> [m0 EXCEPT !.els[i].pos = starting_pos], ret |-> "false"]
       ELSE IF safe_c = "<" /\ at(pos + 1) = "!" /\ skip_dtd(m0, i).found
         THEN again(skip_dtd(m0, i).m, starting_pos)
       ELSE IF safe_c = "<"
         THEN LET m1 == [m0 EXCEPT !.els[i].start_tag_closed = TRUE,
                                   !.els[i].pos = pos + 1]
                  c1 == at(pos + 1)
              IN IF c1 = "!" /\ at(pos + 2) = "-" /\ at(pos + 3) = "-"
                   THEN [m |-> record_markup(m1, i, pos, 0, tag_comment),
                         ret |-> "end"]
                 ELSE LET name == IF c1 = "?" THEN pos + 2 ELSE pos + 1
                          type == IF c1 = "?" THEN tag_instruction
                                  ELSE tag_element
                      IN Only({ [m |-> IF r.m.jumped THEN r.m
                                       ELSE record_markup(r.m, i, name,
                                                          r.length, type),
                                 ret |-> "end"] :
                                r \in {skip_element_tag(
                                         [m1 EXCEPT !.els[i].pos = name], i)} })
       ELSE IF safe_c = ">"
         THEN again([m0 EXCEPT !.els[i].start_tag_closed = TRUE,
                               !.els[i].pos = pos + 1], pos + 1)
       ELSE IF safe_c = "/" /\ at(pos + 1) = ">"
         THEN [m |-> m0, ret |-> "false"]
       ELSE IF ~m0.els[i].start_tag_closed
         THEN LET p1 == IF pos = m0.els[i].name THEN pos + m0.els[i].length
                        ELSE pos
                  p2 == IF at(p1) \in {"'", "\""} THEN p1 + 1 ELSE p1
              IN Only({
                   IF m1.jumped THEN [m |-> m1, ret |-> "end"]
                   ELSE IF at(m1.els[i].pos) # ">"
                     THEN Only({ [m |-> record_markup(r.m, i, m1.els[i].pos,
                                                      r.length, tag_attribute),
                                  ret |-> "end"] :
                                 r \in {skip_element_tag(m1, i)} })
                   ELSE again(m1, starting_pos) :
                   m1 \in {skip_whitespace([m0 EXCEPT !.els[i].pos = p2], i)} })
       ELSE again([m0 EXCEPT !.els[i].pos = pos + 1], starting_pos) :
    m0 \in {skip_whitespace(m, i)} })

\* read_one_markup: the machine and the value returned
read_one_markup(m, i) ==
  LET e == m.els[i]
  IN IF m.jumped THEN [m |-> m, more |-> FALSE]
     ELSE IF e.element_type \notin {tag_element, tag_none}
       THEN [m |-> m, more |-> FALSE]
     ELSE Only({
            IF r.m.jumped \/ r.ret = "false" THEN [m |-> r.m, more |-> FALSE]
            ELSE [m |-> r.m,
                  more |-> /\ r.m.els[i].pos < NulPos
                           /\ at(r.m.els[i].pos) # "<"] :
            r \in {find_next_markup(
                     IF e.type_of_last_markup_read # tag_none
                       THEN finish_content(m, i) ELSE m,
                     i, e.pos)} })

(***************************************************************************)
(* Content decoder                                                         *)
(***************************************************************************)
HexDigits == Digits \cup {"a", "b", "c", "d", "e", "f", "A", "B", "C", "D", "E", "F"}

DigitVal(ch) ==
  CASE ch = "0" -> 0 [] ch = "1" -> 1 [] ch = "2" -> 2 [] ch = "3" -> 3
    [] ch = "4" -> 4 [] ch = "5" -> 5 [] ch = "6" -> 6 [] ch = "7" -> 7
    [] ch = "8" -> 8 [] ch = "9" -> 9
    [] ch \in {"a", "A"} -> 10 [] ch \in {"b", "B"} -> 11
    [] ch \in {"c", "C"} -> 12 [] ch \in {"d", "D"} -> 13
    [] ch \in {"e", "E"} -> 14 [] ch \in {"f", "F"} -> 15
    [] OTHER -> 16

\* the digits sscanf converts in base b from the characters s[k..]: the
\* value and the number of characters used
RECURSIVE scan_digits(_, _, _, _, _)
scan_digits(s, k, b, v, n) ==
  IF k <= Len(s) /\ DigitVal(s[k]) < b
    THEN scan_digits(s, k + 1, b, v * b + DigitVal(s[k]), n + 1)
  ELSE [v |-> v, n |-> n]

\* the characters of the document from start, up to the NUL
TextFrom(start) == [k \in 1..(NulPos - start) |-> at(start + k - 1)]

\* sscanf of one integer in base b: leading white space, a sign, digits;
\* ok = FALSE when nothing was converted and the argument keeps its value
sscanf_int(s, b) ==
  LET nonws == {k \in 1..Len(s) : s[k] \notin Whitespace}
      k0 == IF nonws = {} THEN Len(s) + 1 ELSE Min(nonws)
      neg == k0 <= Len(s) /\ s[k0] = "-"
      k1 == IF k0 <= Len(s) /\ s[k0] \in {"-", "+"} THEN k0 + 1 ELSE k0
      r == scan_digits(s, k1, b, 0, 0)
  IN [ok |-> r.n > 0, v |-> IF neg THEN 0 - r.v ELSE r.v]

\* the bytes below 0x80 that the references of the documents stand for
AsciiChar(v) ==
  CASE v = 10 -> "\n" [] v = 32 -> " " [] v = 38 -> "&" [] v = 60 -> "<"
    [] v = 62 -> ">" [] v = 65 -> "A" [] v = 66 -> "B" [] v = 97 -> "a"
    [] v = 98 -> "b" [] v = 48 -> "0" [] v = 49 -> "1" [] v = 50 -> "2"
    [] OTHER -> "0x" \o <<"0","1","2","3","4","5","6","7">>[(v \div 16) + 1]
                     \o <<"0","1","2","3","4","5","6","7","8","9",
                          "A","B","C","D","E","F">>[(v % 16) + 1]

\* one byte of output that is not ASCII
ByteStr(b) ==
  "0x" \o <<"0","1","2","3","4","5","6","7","8","9",
            "A","B","C","D","E","F">>[((b \div 16) % 16) + 1]
       \o <<"0","1","2","3","4","5","6","7","8","9",
            "A","B","C","D","E","F">>[(b % 16) + 1]

\* the utf32to8 converter of decode_string: the bytes written for v
utf32to8(v) ==
  IF v <= 127 THEN <<AsciiChar(v)>>
  ELSE IF v <= 2047
    THEN <<ByteStr((v \div 64) + 192), ByteStr((v % 64) + 128)>>
  ELSE IF v <= 65535
    THEN <<ByteStr((v \div 4096) + 224), ByteStr(((v \div 64) % 64) + 128),
           ByteStr((v % 64) + 128)>>
  ELSE <<ByteStr((v \div 262144) + 240), ByteStr(((v \div 4096) % 64) + 128),
         ByteStr(((v \div 64) % 64) + 128), ByteStr((v % 64) + 128)>>

\* dest_size and width_remaining are uint32_t
U32(n) == n % Wrap32

\* the values an uninitialised 'long unsigned int v' may hold when sscanf
\* converted nothing
UninitValues == {0, 63, 233}

\* the decode loop of decode_string: the characters written and the error
\* of the longjmp that ended it, if any
RECURSIVE decode_run(_, _, _, _)
decode_run(start, end, dest_size, out) ==
  LET c == at(start)
      done == [out |-> out, err |-> ALI_ERROR_NONE, dest_size |-> dest_size]
      \* after the entity or reference: run over hex digits, expect ';'
      semicolon(st, ds, o) ==
        LET stops == {q \in st..end : at(q) \notin HexDigits \/ q = end}
            q == IF st > end THEN st ELSE Min(stops)
        IN IF at(q) = NUL
             THEN [out |-> o, err |-> ALI_ERROR_DATA_INCOMPLETE, dest_size |-> ds]
           ELSE IF at(q) # ";"
             THEN [out |-> o, err |-> ALI_ERROR_TAG_INVALID, dest_size |-> ds]
           ELSE decode_run(q + 1, end, ds, o)
  IN IF ~(start <= end /\ dest_size > 0) THEN done
     ELSE IF c = "&"
       THEN IF strncmp_eq(Chars("&lt"), 1, start, 3)
              THEN semicolon(start + 3, U32(dest_size - 1), Append(out, "<"))
            ELSE IF strncmp_eq(Chars("&gt"), 1, start, 3)
              THEN semicolon(start + 3, U32(dest_size - 1), Append(out, ">"))
            ELSE IF strncmp_eq(Chars("&amp"), 1, start, 4)
              THEN semicolon(start + 4, U32(dest_size - 1), Append(out, "&"))
            ELSE IF strncmp_eq(Chars("&apos"), 1, start, 5)
              THEN semicolon(start + 5, U32(dest_size - 1), Append(out, "'"))
            ELSE IF strncmp_eq(Chars("&quot"), 1, start, 5)
              THEN semicolon(start + 5, U32(dest_size - 1), Append(out, "\""))
            ELSE IF at(start + 1) = "#"
              THEN LET hex == at(start + 2) = "x"
                       st == IF hex THEN start + 3 ELSE start + 2
                       r == sscanf_int(TextFrom(st), IF hex THEN 16 ELSE 10)
                       v == IF r.ok THEN r.v % Wrap32
                            ELSE uninit
                       bytes == utf32to8(v)
                   IN semicolon(st, U32(dest_size - Len(bytes)), out \o bytes)
            ELSE semicolon(start, dest_size, out)
     ELSE IF c = "\r"
       THEN decode_run(start + 1, end, U32(dest_size - 1), Append(out, "\n"))
     ELSE IF c = "\n"
       THEN IF at(start - 1) # "\r"
              THEN decode_run(start + 1, end, U32(dest_size - 1),
                              Append(out, "\n"))
            ELSE decode_run(start + 1, end, dest_size, out)
     ELSE IF c = "\t"
       THEN decode_run(start + 1, end, U32(dest_size - 1), Append(out, " "))
     ELSE IF c = "<" /\ strncmp_eq(Chars("<![CDATA"), 1, start, 8)
       THEN LET stops == {q \in (start + 8)..(end + 1) :
                            \/ q > end
                            \/ q - (start + 8) >= dest_size
                            \/ at(q) = "]"
                            \/ strncmp_eq(Chars("]]>"), 1, q, 3)}
                q == Min(stops)
            IN decode_run(q + 3, end, U32(dest_size - (q - (start + 8))),
                          out \o [k \in 1..(q - (start + 8)) |->
                                    at(start + 8 + k - 1)])
     ELSE decode_run(start + 1, end, U32(dest_size - 1), Append(out, c))

\* the value the code calls NULL, where a string is expected
NULL == <<"NULL">>

\* decode_string with string == NULL: result = NULL (the string "NULL")
\* or the characters written before the terminating NUL; err as decode_run
decode_string(decode, start, end, dest_size) ==
  IF start > end THEN [result |-> NULL, err |-> ALI_ERROR_NONE]
  ELSE LET ds == IF dest_size = 0 THEN Wrap32 - 1 ELSE dest_size
       IN IF decode
            THEN Only({ [result |-> r.out, err |-> r.err] :
                        r \in {decode_run(start, end, ds, <<>>)} })
          ELSE LET n == IF end - start + 1 < ds THEN end - start + 1 ELSE ds
               IN [result |-> [k \in 1..n |-> at(start + k - 1)],
                   err |-> ALI_ERROR_NONE]

\* the scan of get_content over the value, from pos with width_remaining
\* left: where it stops, or the position at which deref() jumped
RECURSIVE value_run(_, _, _, _, _)
value_run(pos, width_remaining, terminator, suffix, markup_type) ==
  LET safe_c == at(pos)
      more == \/ safe_c # terminator
              \/ terminator = "<" /\ strncmp_eq(Chars("<![CDATA"), 1, pos, 8)
              \/ terminator = "-" /\ at(pos + 1) # "-" /\ at(pos + 2) # ">"
              \/ terminator = "?" /\ at(pos + 1) # ">"
      suffix0 == IF Len(suffix) > 0 THEN suffix[1] ELSE NUL
  IN IF width_remaining = 0 \/ ~more THEN [pos |-> pos, jumped |-> FALSE]
     ELSE IF safe_c = suffix0 /\ strncmp_eq(suffix, 1, pos, Len(suffix))
       THEN [pos |-> pos, jumped |-> FALSE]
     ELSE IF safe_c = "&" /\ markup_type = tag_element
       THEN LET semis == {q \in pos..NulPos : at(q) = ";"}
            IN IF semis = {} THEN [pos |-> NulPos + 1, jumped |-> TRUE]
               ELSE IF ~Valid(Min(semis) + 1)
                 THEN [pos |-> Min(semis) + 1, jumped |-> TRUE]
               ELSE value_run(Min(semis) + 1, U32(width_remaining - 1),
                              terminator, suffix, markup_type)
     ELSE IF /\ safe_c = "<" /\ strncmp_eq(Chars("<![CDATA"), 1, pos, 8)
             /\ markup_type = tag_element
       THEN LET q == Min({q \in (pos + 8)..NulPos :
                            \/ at(q) \in {NUL, "]"}
                            \/ strncmp_eq(Chars("]]>"), 1, q, 3)})
                w == U32(width_remaining - (q - (pos + 8)))
            IN IF at(q) = "]"
                 THEN IF ~Valid(q + 3) THEN [pos |-> q + 3, jumped |-> TRUE]
                      ELSE value_run(q + 3, w, terminator, suffix, markup_type)
               ELSE value_run(q, w, terminator, suffix, markup_type)
     ELSE IF ~Valid(pos + 1) THEN [pos |-> pos + 1, jumped |-> TRUE]
     ELSE value_run(pos + 1, U32(width_remaining - 1), terminator, suffix,
                    markup_type)

\* the prefix loop of get_content: the machine, and whether the prefix
\* was found
RECURSIVE match_prefix(_, _, _, _)
match_prefix(m, i, prefix, k) ==
  IF m.jumped THEN [m |-> m, ok |-> FALSE]
  ELSE IF k > Len(prefix) THEN [m |-> m, ok |-> TRUE]
  ELSE IF ~Valid(m.els[i].pos)
    THEN [m |-> Jump(m, ALI_ERROR_DATA_INCOMPLETE), ok |-> FALSE]
  ELSE IF prefix[k] = at(m.els[i].pos)
    THEN match_prefix([m EXCEPT !.els[i].pos = @ + 1], i, prefix, k + 1)
  ELSE IF prefix[k] \in Whitespace
    THEN match_prefix(skip_whitespace(m, i), i, prefix, k + 1)
  ELSE [m |-> m, ok |-> FALSE]

\* get_content: the machine, the string returned (NULL or the characters
\* decoded) and the characters that reached the destination buffer
get_content(m, i, advance_to_content, prefix, suffix, dest_size) ==
  LET e == m.els[i]
      lmr == e.last_markup_read
      markup_type == IF lmr # ali_element_none THEN e.markup_type[lmr + 1]
                     ELSE e.element_type
      name_end == IF lmr # ali_element_none
                    THEN e.markup_name[lmr + 1] + e.markup_length[lmr + 1]
                  ELSE e.name + e.length
      m0 == IF advance_to_content THEN [m EXCEPT !.els[i].pos = name_end]
            ELSE m
      pos0 == m0.els[i].pos
      none(mm) == [m |-> mm, result |-> NULL, written |-> <<>>]
      \* from the value on: prefix, scan, suffix test, decode
      value(mm, terminator) ==
        IF mm.jumped \/ terminator = NUL THEN none(mm)
        ELSE Only({
          IF pr.m.jumped \/ ~pr.ok THEN none(pr.m)
          ELSE LET attribute_start == pr.m.els[i].pos
               IN IF ~Valid(attribute_start)
                    THEN none(Jump(pr.m, ALI_ERROR_DATA_INCOMPLETE))
                  ELSE Only({
                    LET m1 == [pr.m EXCEPT !.els[i].pos = r.pos]
                        attribute_end == r.pos - 1
                    IN IF r.jumped
                         THEN none(Jump(m1, ALI_ERROR_DATA_INCOMPLETE))
                       ELSE IF Len(suffix) > 0
                               /\ at(attribute_end) = terminator
                         THEN none(m1)
                       ELSE Only({
                         IF d.err # ALI_ERROR_NONE
                           THEN [m |-> Jump(m1, d.err), result |-> NULL,
                                 written |-> d.result]
                         ELSE [m |-> m1, result |-> d.result,
                               written |-> IF d.result = NULL THEN <<>>
                                           ELSE d.result] :
                         d \in {decode_string(
                                  markup_type \in {tag_element, tag_attribute},
                                  attribute_start, attribute_end,
                                  dest_size)} }) :
                    r \in {value_run(attribute_start,
                                     IF dest_size = 0 THEN Wrap32 - 1
                                     ELSE dest_size,
                                     terminator, suffix, markup_type)} }) :
          pr \in {match_prefix(mm, i, prefix, 1)} })
      \* up to the value: the machine there and the character that ends the
      \* value, NUL where the code returns NULL before it gets there
      stop(mm) == [m |-> mm, terminator |-> NUL]
      from(mm, terminator) == [m |-> mm, terminator |-> terminator]
      start ==
        IF m.jumped THEN stop(m)
        ELSE IF markup_type = tag_attribute
          THEN IF advance_to_content
                 THEN IF ~Valid(pos0)
                        THEN stop(Jump(m0, ALI_ERROR_DATA_INCOMPLETE))
                      ELSE LET q == Min({q \in pos0..NulPos :
                                           at(q) \in {"\"", "'", NUL}})
                           IN from([m0 EXCEPT !.els[i].pos = q + 1], at(q))
               ELSE Only({
                      IF t2.jumped THEN stop(t2)
                      ELSE from([t2 EXCEPT !.els[i].pos = pos0],
                                at(t2.els[i].pos)) :
                      t2 \in {skip_whitespace(
                                [skip_whitespace(
                                   [m0 EXCEPT !.els[i].pos = name_end], i)
                                 EXCEPT !.els[i].pos = @ + 1], i)} })
        ELSE IF markup_type = tag_element
          THEN IF advance_to_content
                 THEN IF ~Valid(pos0)
                        THEN stop(Jump(m0, ALI_ERROR_DATA_INCOMPLETE))
                      ELSE LET q == Min({q \in pos0..NulPos :
                                           at(q) \in {">", NUL}})
                               m1 == [m0 EXCEPT !.els[i].pos = q,
                                                !.els[i].start_tag_closed = TRUE]
                           IN IF at(q) = ">" /\ at(q - 1) = "/" THEN stop(m1)
                              ELSE from([m1 EXCEPT !.els[i].pos = q + 1], "<")
               ELSE from(m0, "<")
        ELSE IF markup_type = tag_comment
          THEN from(IF advance_to_content
                      THEN [m0 EXCEPT !.els[i].pos = @ + 4] ELSE m0, "-")
        ELSE IF markup_type = tag_instruction
          THEN from(IF advance_to_content
                      THEN [m0 EXCEPT !.els[i].pos = @ + 1] ELSE m0, "?")
        ELSE stop(m0)
  IN Only({ value(st.m, st.terminator) : st \in {start} })

(***************************************************************************)
(* Element stack                                                           *)
(***************************************************************************)
\* ali_element_ref is an int16_t
Int16(n) == ((n + 32768) % 65536) - 32768

\* a variant of remove_markup that leaves the item in the cache
leave_markup(m, ce, i) ==
  [m EXCEPT !.els[ce].last_markup_read = ali_element_none]

remove_markup(m, ce, i) ==
  LET e == m.els[ce]
      \* advance pos past the end of the markup
      advanced ==
            IF e.last_markup_read = ali_element_none THEN m
            ELSE IF e.type_of_last_markup_read = tag_element
              THEN IF ~Valid(e.last_markup_name)
                     THEN Jump([m EXCEPT !.els[ce].pos = e.last_markup_name],
                               ALI_ERROR_DATA_INCOMPLETE)
                   ELSE skip_end_tag(
                          skip_content(
                            [m EXCEPT !.els[ce].pos =
                               IF at(e.last_markup_name) = ">"
                                 THEN e.last_markup_name + 1
                               ELSE e.last_markup_name],
                            ce, e.last_markup_name, e.last_markup_name_length),
                          ce)
            ELSE IF e.type_of_last_markup_read = tag_attribute
              THEN IF ~Valid(e.pos) THEN Jump(m, ALI_ERROR_DATA_INCOMPLETE)
                   ELSE LET q == Min({q \in (e.pos)..NulPos :
                                        at(q) \in {NUL, "'", "\""}})
                        IN [m EXCEPT !.els[ce].pos =
                                       IF at(q) = NUL THEN q ELSE q + 1,
                                     !.els[ce].start_tag_closed = FALSE]
            ELSE IF e.type_of_last_markup_read = tag_comment
              THEN skip_to_end_of_comment(m, ce)
            ELSE IF e.type_of_last_markup_read = tag_instruction
              THEN skip_to_end_of_processing_instruction(m, ce)
            ELSE m
      \* the memcpy of the three arrays, done for some counts only
      without(seq) ==
        IF e.count > 1 /\ e.count < ali_element_max - 1
          THEN [k \in 1..(e.count - 1) |->
                  IF k < i + 1 THEN seq[k] ELSE seq[k + 1]]
        ELSE SubSeq(seq, 1, e.count - 1)
  IN Only({ IF m.jumped \/ m1.jumped THEN m1
            ELSE [m1 EXCEPT !.els[ce].markup_name = without(@),
                            !.els[ce].markup_length = without(@),
                            !.els[ce].markup_type = without(@),
                            !.els[ce].count = @ - 1,
                            !.els[ce].last_markup_read = ali_element_none,
                            !.els[ce].type_of_last_markup_read = tag_none] :
            m1 \in {advanced} })

new_current_element(m, parent, pos, line_number, name, name_length, element_type) ==
  IF m.jumped THEN m
  ELSE [m EXCEPT
    !.els = Append(@,
       [element |-> m.next, parent |-> parent,
        start_tag_closed |-> FALSE, elements_read |-> FALSE,
        data_used |-> FALSE, data_unavailable |-> FALSE,
        new_element |-> TRUE,
        name |-> name, length |-> name_length, element_type |-> element_type,
        count |-> 0,
        markup_name |-> <<>>, markup_length |-> <<>>, markup_type |-> <<>>,
        last_markup_read |-> ali_element_none,
        type_of_last_markup_read |-> tag_none,
        last_markup_name |-> name, last_markup_name_length |-> name_length,
        pos |-> pos, line_number |-> line_number]),
    !.cur = Len(m.els) + 1,
    !.next = Int16(m.next + 1)]

\* find_element: the index of the frame, searched from the top; 0 = NULL
find_element(els, element) ==
  LET found == {k \in 1..Len(els) : els[k].element = element}
  IN IF found = {} THEN 0 ELSE CHOOSE k \in found : \A j \in found : j <= k

\* delete_element(doc, &doc->current_element)
delete_element(m) ==
  IF m.jumped THEN m
  ELSE IF m.cur = 0 THEN Crash(m)
  ELSE LET i == Len(m.els)
           e == m.els[m.cur]
       IN Only({
            LET parent == find_element(m1.els, e.parent)
            IN IF m1.jumped THEN m1
               ELSE IF parent = 0 THEN Crash(m1)
               ELSE LET m2 == IF m1.els[parent].pos < m1.els[m.cur].pos
                                THEN [m1 EXCEPT !.els[parent].pos =
                                                   m1.els[m.cur].pos]
                              ELSE m1
                    IN [m2 EXCEPT !.els = SubSeq(@, 1, i - 1), !.cur = i - 1] :
            m1 \in {IF e.element_type = tag_element
                      THEN skip_end_tag(
                             skip_content(m, m.cur, e.name, e.length), m.cur)
                    ELSE m} })

\* ali_is_element_done on the current element: the machine and the value
\* a variant of ali_is_element_done that answers from the cache alone and
\* reads no markup ahead
ali_is_element_done_cached(m) ==
  [m |-> m,
   done |-> \/ m.jumped
            \/ m.cur = 0
            \/ m.error # ALI_ERROR_NONE
            \/ m.els[m.cur].count = 0
            \/ ~m.els[m.cur].data_used]

ali_is_element_done(m) ==
  IF m.jumped THEN [m |-> m, done |-> TRUE]
  ELSE IF m.cur = 0 THEN [m |-> Crash(m), done |-> TRUE]
  ELSE IF m.error # ALI_ERROR_NONE THEN [m |-> m, done |-> TRUE]
  ELSE LET e == m.els[m.cur]
       IN Only({
            LET m1 == IF e.count = 0 /\ ~e.elements_read /\ ~r.m.jumped
                        THEN [r.m EXCEPT !.els[m.cur].elements_read = ~r.more]
                      ELSE r.m
            IN [m |-> m1,
                done |-> \/ m1.els[m.cur].count = 0
                         \/ ~m1.els[m.cur].data_used] :
            r \in {IF e.count = 0 /\ ~e.elements_read
                     THEN read_one_markup(m, m.cur)
                   ELSE [m |-> m, more |-> FALSE]} })

(***************************************************************************)
(* Format driven binder: parse_input_format, one iteration of its          *)
(* loop over the format per step.  An activation a holds the locals of one *)
(* ali_in in flight: element, format, f, the va_list (args, argi),         *)
(* element_optional, element_wanted, result, advance_to_content,           *)
(* prefix_str, and for a %F loop the callback, new_element and the phase.  *)
(* Arguments are records [t, v]: t = "int", "str", "null", "ptr" or "fn",  *)
(* v the digits of the int, the string, or the name of the variable or     *)
(* function pointed to.                                                    *)
(***************************************************************************)
\* f[k]
F(a, k) == IF a.f + k >= 1 /\ a.f + k <= Len(a.format) THEN a.format[a.f + k]
           ELSE NUL

\* va_arg(arg, ...)
va_arg(a) == IF a.argi <= Len(a.args) THEN a.args[a.argi]
             ELSE [t |-> "null", v |-> ""]

\* an argument read as 0 or NULL
IsZero(arg) == arg.t = "null" \/ (arg.t = "int" /\ arg.v = "0")

\* compare_markup_names(doc, a, b, length) == 0, no conversion option set
compare_markup_names(name, b, length) == strncmp_eq(name, 1, b, length)

\* read_suffix: the characters required after the value, read from sp
RECURSIVE read_suffix(_, _)
read_suffix(format, sp) ==
  LET c0 == IF sp <= Len(format) THEN format[sp] ELSE NUL
      c1 == IF sp + 1 <= Len(format) THEN format[sp + 1] ELSE NUL
  IN IF c0 = NUL THEN <<>>
     ELSE IF c0 \in {"%", "^"}
       THEN IF c1 = c0 THEN <<c0>> \o read_suffix(format, sp + 2) ELSE <<>>
     ELSE <<c0>> \o read_suffix(format, sp + 1)

\* the machine after 'return false' in parse_input_format, or after the
\* loop: status "return" carries the value ali_in returns
Return(m, a, v) == [m |-> m, a |-> [a EXCEPT !.retval = v], status |-> "return"]
Run(m, a) == [m |-> m, a |-> a, status |-> "run"]

\* the search of a '^' directive over the cache of frame ce from entry i:
\* the machine and the entry found (ali_element_none = not found)
RECURSIVE search_markup(_, _, _, _, _, _)
search_markup(m, ce, i, any, markup_type, name) ==
  LET e == m.els[ce]
  IN IF m.jumped \/ ~(i < e.count) THEN [m |-> m, i |-> ali_element_none]
     ELSE IF any \/ (e.markup_type[i + 1] = markup_type
                     /\ (markup_type = tag_comment
                         \/ compare_markup_names(name, e.markup_name[i + 1],
                                                 e.markup_length[i + 1])))
       THEN [m |-> m, i |-> i]
     ELSE IF i + 1 >= e.count /\ ~e.elements_read
       THEN Only({ search_markup(
                     IF r.m.jumped THEN r.m
                     ELSE [r.m EXCEPT !.els[ce].elements_read = ~r.more],
                     ce, i + 1, any, markup_type, name) :
                   r \in {read_one_markup(m, ce)} })
     ELSE search_markup(m, ce, i + 1, any, markup_type, name)

\* a '^' directive whose letter is at f: e, a, C, P or *
parse_markup(m, a) ==
  LET c == F(a, 0)
      read_prefix == c \in {"e", "a"}
      markup_type == CASE c = "e" -> tag_element [] c = "a" -> tag_attribute
                       [] c = "C" -> tag_comment [] c = "P" -> tag_instruction
                       [] OTHER -> tag_none
      prefix == va_arg(a)
      a1 == IF read_prefix THEN [a EXCEPT !.argi = @ + 1] ELSE a
      has_name == c # "*" /\ markup_type # tag_comment
      strP == va_arg(a1)
      a2 == IF has_name THEN [a1 EXCEPT !.argi = @ + 1, !.element_wanted = TRUE]
            ELSE [a1 EXCEPT !.element_wanted = TRUE]
      ce == m.cur
      e == m.els[ce]
      \* the cache of the frame with its first item enumerated
      first_read ==
        Only({ IF e.count = 0 /\ ~e.elements_read /\ ~r0.m.jumped
                 THEN [r0.m EXCEPT !.els[ce].elements_read = ~r0.more]
               ELSE r0.m :
               r0 \in {IF e.count = 0 /\ ~e.elements_read
                         THEN read_one_markup(m, ce)
                       ELSE [m |-> m, more |-> FALSE]} })
  IN IF read_prefix /\ ~IsZero(prefix)
       THEN Return([m EXCEPT !.error = ALI_ERROR_NAMESPACE_INVALID], a1, 0)
     ELSE IF has_name /\ IsZero(strP)
       THEN Return([m EXCEPT !.error = ALI_ERROR_NULL_TAG], a2, 0)
     ELSE Only({
       LET m1 == sr.m
       IN IF m1.jumped THEN Run(m1, a2)
          ELSE IF sr.i # ali_element_none
            THEN LET em == m1.els[ce]
                     i == sr.i
                     m2 == [m1 EXCEPT !.els[ce].last_markup_read = i]
                     enter ==
                       /\ (em.markup_type[i + 1] = tag_element \/ c = "*")
                       /\ \/ F(a, 1) \in {NUL, "^"}
                          \/ F(a, 1) = "%" /\ F(a, 2) = "F"
                     name_end ==
                       em.markup_name[i + 1] + em.markup_length[i + 1]
                 IN IF enter
                      THEN Run(new_current_element(
                                 [m2 EXCEPT !.els[ce].pos = name_end],
                                 em.element, name_end, em.line_number,
                                 em.markup_name[i + 1], em.markup_length[i + 1],
                                 em.markup_type[i + 1]),
                               [a2 EXCEPT !.result = TRUE, !.prefix_str = <<>>,
                                          !.f = @ + 1])
                    ELSE Run(m2, [a2 EXCEPT !.prefix_str = <<>>, !.f = @ + 1])
          ELSE LET m2 == [m1 EXCEPT !.els[ce].data_unavailable = TRUE]
               IN IF ~a.element_optional /\ m2.els[ce].new_element /\ c # "*"
                    THEN Return([m2 EXCEPT !.error = ALI_ERROR_TAG_MISSING],
                                a2, 0)
                  ELSE LET rest == {k \in (a.f)..Len(a.format) :
                                      a.format[k] = "^"}
                       IN Run(m2, [a2 EXCEPT !.f =
                                     IF rest = {} THEN Len(a.format) + 1
                                     ELSE Min(rest)]) :
       sr \in {search_markup(first_read, ce, 0, c = "*", markup_type,
                             IF has_name THEN Chars(strP.v) ELSE <<>>)} })

\* one iteration of the loop that starts at a '^'
parse_caret(m, a) ==
  LET a0 == [a EXCEPT !.f = @ + 1, !.element_optional = FALSE]
      c == F(a0, 0)
      ce == m.cur
      \* close the markup read last, or pop up a level
      closed ==
            IF c = "^" THEN m
            ELSE IF m.els[ce].last_markup_read # ali_element_none
              THEN IF ~a.element_wanted
                     THEN remove_markup(m, ce, m.els[ce].last_markup_read)
                   ELSE m
            ELSE IF c \notin {"e", "a", "o", "*"}
              THEN Only({ IF md.jumped THEN md
                          ELSE IF md.cur = 0 THEN Crash(md)
                          ELSE [md EXCEPT !.els[md.cur].data_used = TRUE] :
                          md \in {IF m.els[ce].element # a.element
                                    THEN delete_element(m) ELSE m} })
            ELSE m
      a1 == IF c = "^" THEN a0
            ELSE [a0 EXCEPT !.advance_to_content = TRUE,
                            !.result =
                               IF /\ m.els[ce].last_markup_read = ali_element_none
                                  /\ c \notin {"e", "a", "o", "*"}
                                 THEN TRUE ELSE @]
      \* the 'o' marker
      a2 == IF c = "o"
              THEN [a1 EXCEPT !.element_optional = TRUE,
                              !.f = IF F(a1, 1) # NUL THEN @ + 1 ELSE @]
            ELSE a1
  IN Only({ IF m1.jumped THEN Run(m1, a1)
            ELSE IF c = "%" THEN Run(m1, a1)
            ELSE IF F(a2, 0) \in {"e", "a", "C", "P", "*"}
              THEN parse_markup(m1, a2)
            ELSE Return([m1 EXCEPT !.error =
                           ALI_ERROR_UNKNOWN_XML_INSTRUCTION], a2, 0) :
            m1 \in {closed} })

\* the modifiers of a conversion, read from f[k] on, up to its last char
RECURSIVE read_modifiers(_, _, _)
read_modifiers(a, k, fl) ==
  LET c == F(a, k)
  IN IF c = "l" THEN read_modifiers(a, k + 1, [fl EXCEPT !.long_arg = TRUE])
     ELSE IF c \in {"q", "L"}
       THEN read_modifiers(a, k + 1, [fl EXCEPT !.long_double_arg = TRUE])
     ELSE IF c = "h"
       THEN IF ~fl.long_arg /\ F(a, k - 1) = "h"
              THEN read_modifiers(a, k + 1, [fl EXCEPT !.byte_arg = TRUE])
            ELSE read_modifiers(a, k + 1, [fl EXCEPT !.short_arg = TRUE])
     ELSE IF c = "a" THEN read_modifiers(a, k + 1, [fl EXCEPT !.allocate = TRUE])
     ELSE IF c \in {"F", "s", "e", "E", "f", "g", "G", "c", "d", "i", "u", "o",
                    "x", "X", "p", "%", NUL}
       THEN [fl EXCEPT !.k = k]
     ELSE IF c \in Digits
       THEN read_modifiers(a, k + 1, [fl EXCEPT !.width = @ * 10 + DigitVal(c)])
     ELSE read_modifiers(a, k + 1, fl)

\* sscanf(number, "%<conversion>", ...) for the integer conversions
sscanf_conv(conversion, number) ==
  LET hex0x == Len(number) >= 2 /\ number[1] = "0" /\ number[2] \in {"x", "X"}
  IN IF conversion = "c"
       THEN [ok |-> Len(number) > 0, v |-> 0,
             s |-> IF Len(number) > 0 THEN <<number[1]>> ELSE <<>>]
     ELSE IF conversion = "o"
       THEN [ok |-> sscanf_int(number, 8).ok, v |-> sscanf_int(number, 8).v,
             s |-> <<>>]
     ELSE IF conversion \in {"x", "X"} \/ (conversion = "i" /\ hex0x)
       THEN LET r == sscanf_int(IF hex0x THEN SubSeq(number, 3, Len(number))
                                ELSE number, 16)
            IN [ok |-> r.ok \/ hex0x, v |-> r.v, s |-> <<>>]
     ELSE IF conversion = "i" /\ Len(number) >= 1 /\ number[1] = "0"
       THEN [ok |-> TRUE, v |-> sscanf_int(number, 8).v, s |-> <<>>]
     ELSE [ok |-> sscanf_int(number, 10).ok, v |-> sscanf_int(number, 10).v,
           s |-> <<>>]

\* sscanf of a floating point number: the characters converted
sscanf_float(number) ==
  LET nonws == {k \in 1..Len(number) : number[k] \notin Whitespace}
      k0 == IF nonws = {} THEN Len(number) + 1 ELSE Min(nonws)
      k1 == IF k0 <= Len(number) /\ number[k0] \in {"-", "+"} THEN k0 + 1
            ELSE k0
      ends == {k \in k1..(Len(number) + 1) :
                 k > Len(number) \/ number[k] \notin (Digits \cup {"."})}
      k2 == Min(ends)
  IN [ok |-> \E k \in k1..(k2 - 1) : number[k] \in Digits,
      s |-> SubSeq(number, k0, k2 - 1)]

\* stores through the pointer arguments
StoreInt(m, ptr, v) ==
  IF ptr.t # "ptr" THEN Crash(m)
  ELSE [m EXCEPT !.dest[ptr.v] = [n |-> v, s |-> <<>>, w |-> @.w + 1]]
StoreStr(m, ptr, str) ==
  IF ptr.t # "ptr" THEN Crash(m)
  ELSE [m EXCEPT !.dest[ptr.v] = [n |-> 0, s |-> str, w |-> @.w + 1]]

\* get_markup_name
get_markup_name(name, length, type) ==
  LET n == [k \in 1..length |-> at(name + k - 1)]
  IN IF type \in {tag_element, tag_none} THEN <<"/">> \o n
     ELSE IF type = tag_attribute THEN <<"[", "@">> \o n \o <<"]">>
     ELSE IF type = tag_comment THEN Chars("/comment()")
     ELSE IF type = tag_instruction
       THEN Chars("/processing-instruction(") \o n \o <<")">>
     ELSE <<>>

\* get_element_name
get_element_name(e, path_end) ==
  get_markup_name(e.name, e.length, e.element_type)
  \o (IF e.element = path_end /\ e.last_markup_read # ali_element_none
        THEN get_markup_name(e.last_markup_name, e.last_markup_name_length,
                             e.type_of_last_markup_read)
      ELSE <<>>)

\* build_element_path, for the frame at index k (0 = not found)
RECURSIVE build_element_path(_, _, _)
build_element_path(els, k, path_end) ==
  IF k = 0 THEN <<>>
  ELSE IF els[k].parent \in {2, 0} THEN get_element_name(els[k], path_end)
  ELSE build_element_path(els, find_element(els, els[k].parent),
                          path_end)
       \o get_element_name(els[k], path_end)

get_element_path(m, element) ==
  build_element_path(m.els, find_element(m.els, element), element)

\* the end of the iteration for a conversion: after the for (;;) loop
end_conversion(m, a, fl) ==
  Run(m, [a EXCEPT !.prefix_str = <<>>,
                   !.advance_to_content =
                      IF F(a, fl.k) # "p" THEN FALSE ELSE @,
                   !.f = IF F(a, fl.k) # NUL THEN a.f + fl.k + 1
                         ELSE a.f + fl.k])

\* the top of the do-while of %F: the flags are cleared when the current
\* element is still the one the loop is for, then the callback is called
call_callback(m, a) ==
  [m |-> IF m.cur # 0 /\ m.els[m.cur].element = a.new_element
           THEN [m EXCEPT !.els[m.cur].data_used = FALSE,
                          !.els[m.cur].data_unavailable = FALSE]
         ELSE m,
   a |-> [a EXCEPT !.phase = "callback", !.passes = @ + 1],
   status |-> "callback"]

\* a variant of content_required with the first-pass flag inverted
content_required_after_first_pass(a, e) ==
  ~a.element_optional /\ ~e.new_element

\* the test under which a numeric conversion that found no content fails
content_required(a, e) ==
  ~a.element_optional /\ e.new_element

\* one iteration of the loop that starts at a '%'; f is at the '%'
parse_percent(m, a) ==
  Only({
    LET ce == m.cur
        e == m.els[ce]
        a0 == IF ~e.start_tag_closed
                THEN [a EXCEPT !.advance_to_content = TRUE]
              ELSE a
        c == F(a, fl.k)
        ptr == va_arg(a0)
        a1 == [a0 EXCEPT !.argi = @ + 1]
        wanted == e.last_markup_read # ali_element_none \/ ~a.element_wanted
        suffix == read_suffix(a.format, a.f + fl.k + 1)
        a2 == [a1 EXCEPT !.element_wanted = FALSE, !.result = TRUE]
        number_size == IF c \in {"e", "E", "f", "g", "G"} THEN 32 ELSE 16
        width == IF (c = "c" \/ fl.byte_arg) /\ ~fl.long_arg /\ ~fl.short_arg
                   THEN (IF fl.width = 0 THEN 1 ELSE fl.width)
                 ELSE fl.width
        used(mm) == [mm EXCEPT !.els[ce].data_used = TRUE]
        \* %s with the content gc that get_content returned
        string(gc) ==
          LET m1 == IF fl.allocate
                      THEN StoreStr(gc.m, ptr, gc.result)
                    ELSE IF gc.result # NULL \/ Len(gc.written) > 0
                      THEN StoreStr(gc.m, ptr, gc.written)
                    ELSE gc.m
          IN IF gc.m.jumped
               THEN Run(IF ~fl.allocate /\ Len(gc.written) > 0
                          THEN [gc.m EXCEPT !.dest[ptr.v] =
                                  [n |-> 0, s |-> gc.written, w |-> @.w + 1]]
                        ELSE gc.m, a1)
             ELSE end_conversion(
                    IF e.last_markup_read # ali_element_none
                      THEN used(m1) ELSE m1, a2, fl)
        \* the numeric conversions with the content gc
        number(gc) ==
          IF gc.m.jumped THEN Run(gc.m, a1)
          ELSE IF gc.result # NULL /\ Len(gc.result) > 0
            THEN LET float == c \in {"e", "E", "f", "g", "G"}
                 IN Only({ end_conversion(
                             used(IF ~r.ok THEN gc.m
                                  ELSE IF float \/ c = "c"
                                    THEN StoreStr(gc.m, ptr, r.s)
                                  ELSE StoreInt(gc.m, ptr, r.v)),
                             a2, fl) :
                           r \in {IF float THEN sscanf_float(gc.result)
                                  ELSE sscanf_conv(c, gc.result)} })
          ELSE IF content_required(a, gc.m.els[ce])
            THEN Return([gc.m EXCEPT !.error = ALI_ERROR_CONTENT_MISSING],
                        a1, 0)
          ELSE end_conversion(used(gc.m), a2, fl)
    IN IF c = "F"
         THEN IF ~e.elements_read \/ ~a.element_wanted
                THEN call_callback(m, [a1 EXCEPT !.new_element = e.element,
                                                 !.callback = ptr.v,
                                                 !.fk = fl.k, !.passes = 0])
              ELSE end_conversion(m, a1, fl)
       ELSE IF c \in {"s", "e", "E", "f", "g", "G", "c", "d", "i", "u", "o",
                      "x", "X"}
         THEN IF ~wanted THEN end_conversion(m, a1, fl)
              ELSE Only({ IF c = "s" THEN string(gc) ELSE number(gc) :
                          gc \in {get_content(
                                    m, ce, a0.advance_to_content, a.prefix_str,
                                    suffix,
                                    IF c = "s" THEN fl.width
                                    ELSE IF width > 0 /\ width < number_size - 1
                                      THEN width
                                    ELSE number_size - 1)} })
       ELSE IF c = "p"
         THEN LET content == get_element_path(m, e.element)
                  n == IF fl.width = 0 \/ fl.width > Len(content)
                         THEN Len(content) ELSE fl.width
              IN end_conversion(
                   IF fl.allocate THEN StoreStr(m, ptr, content)
                   ELSE IF ptr.t = "ptr" /\ n < Len(m.dest[ptr.v].s)
                     THEN StoreStr(m, ptr, SubSeq(content, 1, n))
                   ELSE Crash(m), a2, fl)
       ELSE IF c = "%"
         THEN end_conversion(m, [a0 EXCEPT !.prefix_str = Append(@, "%")], fl)
       ELSE end_conversion(m, a0, fl) :
    fl \in {read_modifiers(a, 1,
              [long_arg |-> FALSE, short_arg |-> FALSE,
               long_double_arg |-> FALSE, byte_arg |-> FALSE,
               allocate |-> FALSE, width |-> 0, k |-> 0])} })

\* the rest of the %F branch once ali_is_element_done has ended the loop
finish_callback(m, a) ==
  LET a1 == [a EXCEPT !.phase = "parse"]
      \* doc->current_element->pos handed down to the parent frame
      handed(m1) ==
        LET ce == m1.cur
            e == m1.els[ce]
            next == ce - 1
        IN IF m1.jumped THEN m1
           ELSE IF next = 0 THEN Crash(m1)
           ELSE LET n1 == IF m1.els[next].pos = e.name + e.length
                            THEN [m1 EXCEPT !.els[next].pos = e.pos] ELSE m1
                IN IF n1.els[next].last_markup_name = e.name
                     THEN [n1 EXCEPT !.els[next].last_markup_name = e.pos,
                                     !.els[next].type_of_last_markup_read =
                                        tag_none]
                   ELSE n1
  IN Only({
       LET m4 == IF m3.jumped THEN m3
                 ELSE IF m3.cur = 0 THEN Crash(m3)
                 ELSE [m3 EXCEPT !.els[m3.cur].data_used = TRUE]
       IN IF m4.jumped THEN Run(m4, a1)
          ELSE Run(m4, [a1 EXCEPT !.element_wanted = FALSE, !.result = TRUE,
                                  !.prefix_str = <<>>,
                                  !.advance_to_content = FALSE,
                                  !.f = a.f + a.fk + 1]) :
       m3 \in {delete_element(handed(skip_end_tag(m, m.cur)))} })

\* what parse_input_format does when the callback returns: clear
\* new_element, test ali_is_element_done, call again or leave the loop
callback_returned(m, a) ==
  IF m.cur = 0 THEN Run(Crash(m), a)
  ELSE Only({ IF d.m.jumped THEN Run(d.m, [a EXCEPT !.phase = "parse"])
              ELSE IF ~d.done THEN call_callback(d.m, a)
              ELSE finish_callback(d.m, a) :
              d \in {ali_is_element_done(
                       [m EXCEPT !.els[m.cur].new_element = FALSE])} })

\* the statements after the loop of parse_input_format
end_of_format(m, a) ==
  LET e == m.els[m.cur]
  IN Only({ IF m1.jumped THEN Run(m1, a)
            ELSE Return(m1, a,
                        IF a.result THEN m1.els[m1.cur].element ELSE 0) :
            m1 \in {IF /\ e.last_markup_read # ali_element_none
                       /\ ~a.element_wanted
                      THEN remove_markup(m, m.cur, e.last_markup_read)
                    ELSE m} })

\* one iteration of the loop of parse_input_format, or its end
parse_step(m, a) ==
  LET c == F(a, 0)
  IN IF m.cur = 0 THEN Run(Crash(m), a)
     ELSE IF c = NUL THEN end_of_format(m, a)
     ELSE IF c = "^" THEN parse_caret(m, a)
     ELSE IF c = "%" THEN parse_percent(m, a)
     ELSE Run(m, [a EXCEPT !.prefix_str = Append(@, c), !.f = @ + 1])

\* a variant of close_elements that closes no frame
keep_elements(m, element) == m

\* the loop of ali_in that closes frames until the one asked for is current
RECURSIVE close_elements(_, _)
close_elements(m, element) ==
  IF m.jumped \/ m.cur = 0 THEN m
  ELSE IF element < m.els[m.cur].element
    THEN close_elements(delete_element(m), element)
  ELSE m

\* a variant of ali_in without the test of the error state at its start
ali_in_unguarded(m, element) ==
  IF m.cur = 0 THEN [m |-> Crash(m), parse |-> FALSE]
  ELSE Only({ IF m1.jumped THEN [m |-> m1, parse |-> FALSE]
              ELSE IF m1.cur = 0 THEN [m |-> m1, parse |-> FALSE]
              ELSE [m |-> m1, parse |-> TRUE] :
              m1 \in {IF /\ m.els[m.cur].element # element
                         /\ find_element(m.els, element) # 0
                        THEN close_elements(m, element)
                      ELSE m} })

\* ali_in up to its setjmp: the machine, and whether parse_input_format runs
ali_in(m, element) ==
  IF m.error # ALI_ERROR_NONE THEN [m |-> m, parse |-> FALSE]
  ELSE IF m.cur = 0 THEN [m |-> Crash(m), parse |-> FALSE]
  ELSE Only({ IF m1.jumped THEN [m |-> m1, parse |-> FALSE]
              ELSE IF m1.cur = 0 THEN [m |-> m1, parse |-> FALSE]
              ELSE [m |-> m1, parse |-> TRUE] :
              m1 \in {IF /\ m.els[m.cur].element # element
                         /\ find_element(m.els, element) # 0
                        THEN close_elements(m, element)
                      ELSE m} })

\* ali_is_element_new
ali_is_element_new(m, element) ==
  LET k == IF m.els[m.cur].element # element THEN find_element(m.els, element)
           ELSE m.cur
  IN IF k = 0 THEN TRUE ELSE m.els[k].new_element

\* ali_set_error
ali_set_error(m, new_error) == [m EXCEPT !.error = new_error]

(***************************************************************************)
(* The host program: the documents it opens and the calls it contains      *)
(***************************************************************************)
IntArg(v) == [t |-> "int", v |-> v]
StrArg(v) == [t |-> "str", v |-> v]
PtrArg(v) == [t |-> "ptr", v |-> v]
FnArg(v) == [t |-> "fn", v |-> v]
Query(format, args) == [format |-> Chars(format), args |-> args]

\* the variables of the host that conversions store to
Dests == {"v", "s"}

\* one host per document: the text of the file and the ali_in calls of the
\* code that reads it, at top level or in a %F callback
Scenarios ==
  { [text |-> Chars("<x>42</x>"),
     queries |-> << Query("^e%d", <<IntArg("0"), StrArg("x"), PtrArg("v")>>),
                    Query("^e%d", <<IntArg("0"), StrArg("y"), PtrArg("v")>>),
                    Query("^oe%d", <<IntArg("0"), StrArg("y"), PtrArg("v")>>),
                    Query("^oe%F", <<IntArg("0"), StrArg("y"), FnArg("cb")>>) >>],
    [text |-> Chars("<r><a>1</a><b>2</b><c>3</c></r>"),
     queries |-> << Query("^e", <<IntArg("0"), StrArg("r")>>),
                    Query("^e%d", <<IntArg("0"), StrArg("a"), PtrArg("v")>>),
                    Query("^e%d", <<IntArg("0"), StrArg("b"), PtrArg("v")>>),
                    Query("^e%d", <<IntArg("0"), StrArg("c"), PtrArg("v")>>) >>],
    [text |-> Chars("<x/>"),
     queries |-> << Query("^e%d", <<IntArg("0"), StrArg("x"), PtrArg("v")>>),
                    Query("^e^a%d", <<IntArg("0"), StrArg("x"), IntArg("0"), StrArg("w"),
                                      PtrArg("v")>>),
                    Query("^e^oa%d", <<IntArg("0"), StrArg("x"), IntArg("0"), StrArg("w"),
                                       PtrArg("v")>>) >>],
    [text |-> Chars("<r><y /><z></z></r>"),
     queries |-> << Query("^e", <<IntArg("0"), StrArg("r")>>),
                    Query("^e%d", <<IntArg("0"), StrArg("y"), PtrArg("v")>>),
                    Query("^e%x", <<IntArg("0"), StrArg("z"), PtrArg("v")>>),
                    Query("^oe%d", <<IntArg("0"), StrArg("z"), PtrArg("v")>>),
                    Query("^e%f", <<IntArg("0"), StrArg("y"), PtrArg("v")>>),
                    Query("^e%c", <<IntArg("0"), StrArg("z"), PtrArg("v")>>) >>],
    [text |-> <<"<", "a", " ", "w", "=", "\"", "\"", " ", "h", "=", "\"", "7",
                "\"", " ", "/", ">">>,
     queries |-> << Query("^e", <<IntArg("0"), StrArg("a")>>),
                    Query("^a%d", <<IntArg("0"), StrArg("w"), PtrArg("v")>>),
                    Query("^a%d", <<IntArg("0"), StrArg("h"), PtrArg("v")>>),
                    Query("^a%d", <<IntArg("0"), StrArg("k"), PtrArg("v")>>),
                    Query("^a%u", <<IntArg("0"), StrArg("w"), PtrArg("v")>>) >>],
    [text |-> Chars("<r><a"),
     queries |-> << Query("^e", <<IntArg("0"), StrArg("r")>>),
                    Query("^e", <<IntArg("0"), StrArg("a")>>),
                    Query("^e%d", <<IntArg("0"), StrArg("b"), PtrArg("v")>>),
                    Query("^oe%d", <<IntArg("0"), StrArg("b"), PtrArg("v")>>) >>],
    [text |-> Chars("<r><a$>5</a></r>"),
     queries |-> << Query("^e", <<IntArg("0"), StrArg("r")>>),
                    Query("^e%d", <<IntArg("0"), StrArg("a"), PtrArg("v")>>),
                    Query("^e%d", <<IntArg("0"), StrArg("b"), PtrArg("v")>>) >>],
    [text |-> Chars("<r><i>1</i><i>2</i></r>"),
     queries |-> << Query("^e%F", <<IntArg("0"), StrArg("r"), FnArg("cb")>>),
                    Query("^e%d", <<IntArg("0"), StrArg("i"), PtrArg("v")>>),
                    Query("^e%d", <<IntArg("0"), StrArg("j"), PtrArg("v")>>),
                    Query("^e", <<IntArg("0"), StrArg("r")>>),
                    Query("^oe%d", <<IntArg("0"), StrArg("i"), PtrArg("v")>>) >>],
    [text |-> Chars("<r><i>1</i><i>2</i><c/></r>"),
     queries |-> << Query("^e%F", <<IntArg("0"), StrArg("r"), FnArg("cb")>>),
                    Query("^e%d", <<IntArg("0"), StrArg("i"), PtrArg("v")>>),
                    Query("^e%d", <<IntArg("0"), StrArg("j"), PtrArg("v")>>) >>],
    [text |-> Chars("<x>a&bogus;b</x>"),
     queries |-> << Query("^e%s", <<IntArg("0"), StrArg("x"), PtrArg("s")>>),
                    Query("^e%d", <<IntArg("0"), StrArg("x"), PtrArg("v")>>) >>],
    [text |-> Chars("<x>a &lt;b&gt; c</x>"),
     queries |-> << Query("^e%s", <<IntArg("0"), StrArg("x"), PtrArg("s")>>) >>],
    [text |-> Chars("<x>&amp;&apos;&quot;</x>"),
     queries |-> << Query("^e%s", <<IntArg("0"), StrArg("x"), PtrArg("s")>>) >>],
    [text |-> Chars("<x>&#65;&#x42;</x>"),
     queries |-> << Query("^e%s", <<IntArg("0"), StrArg("x"), PtrArg("s")>>) >>],
    [text |-> Chars("<x>&#zz;</x>"),
     queries |-> << Query("^e%s", <<IntArg("0"), StrArg("x"), PtrArg("s")>>) >>],
    [text |-> Chars("<x>&lta;</x>"),
     queries |-> << Query("^e%s", <<IntArg("0"), StrArg("x"), PtrArg("s")>>) >>],
    [text |-> Chars("<x>a<![CDATA[b<c]]>d</x>"),
     queries |-> << Query("^e%s", <<IntArg("0"), StrArg("x"), PtrArg("s")>>) >>],
    [text |-> Chars("<x><![CDATA[a]b]]></x>"),
     queries |-> << Query("^e%s", <<IntArg("0"), StrArg("x"), PtrArg("s")>>) >>],
    [text |-> Chars("<r>") \o
             Chars("<a>1</a><a>2</a><a>3</a><a>4</a><a>5</a>") \o
             Chars("<a>6</a><a>7</a><a>8</a><a>9</a><a>0</a>") \o
             Chars("<a>1</a><a>2</a><a>3</a><a>4</a><a>5</a>") \o
             Chars("<b>1</b><c>2</c></r>"),
     queries |-> << Query("^e", <<IntArg("0"), StrArg("r")>>),
                    Query("^e%d", <<IntArg("0"), StrArg("b"), PtrArg("v")>>),
                    Query("^e%d", <<IntArg("0"), StrArg("a"), PtrArg("v")>>),
                    Query("^e%d", <<IntArg("0"), StrArg("z"), PtrArg("v")>>) >>],
    [text |-> Chars("<x>abc</x>"),
     queries |-> << Query("^e%2s", <<IntArg("0"), StrArg("x"), PtrArg("s")>>) >>],
    [text |-> Chars("<x>&#233;b</x>"),
     queries |-> << Query("^e%1s", <<IntArg("0"), StrArg("x"), PtrArg("s")>>) >>],
    [text |-> Chars("<r><a w=") \o <<"\"", "1", "0", "\"">> \o Chars(" h=")
              \o <<"\"", "2", "0", "\"">> \o Chars("/></r>"),
     queries |-> << Query("^e^e", <<IntArg("0"), StrArg("r"),
                                    IntArg("0"), StrArg("a")>>),
                    Query("^a%d", <<IntArg("0"), StrArg("w"), PtrArg("v")>>),
                    Query("^a%d", <<IntArg("0"), StrArg("h"), PtrArg("v")>>),
                    Query("^oe", <<IntArg("0"), StrArg("a")>>) >>],
    [text |-> Chars("<r><i>1</i><c/></r>"),
     queries |-> << Query("^e", <<IntArg("0"), StrArg("r")>>),
                    Query("^e%d", <<IntArg("0"), StrArg("i"), PtrArg("v")>>) >>],
    [text |-> Chars("<r><it>1</it><item>2</item></r>"),
     queries |-> << Query("^e^e%d", <<IntArg("0"), StrArg("r"), IntArg("0"),
                                      StrArg("item"), PtrArg("v")>>),
                    Query("^e^e%d", <<IntArg("0"), StrArg("r"), IntArg("0"),
                                      StrArg("it"), PtrArg("v")>>),
                    Query("^e^e%d", <<IntArg("0"), StrArg("r"), IntArg("0"),
                                      StrArg("i"), PtrArg("v")>>) >>],
    [text |-> Chars("<q>7</q>"),
     queries |-> << Query("^c%d", <<PtrArg("v")>>),
                    Query("^z%d", <<IntArg("0"), StrArg("q"), PtrArg("v")>>),
                    Query("^C", <<>>),
                    Query("^e%d", <<IntArg("0"), StrArg("q"), PtrArg("v")>>) >>],
    [text |-> Chars("<r><i>1</i><!--"),
     queries |-> << Query("^e%F", <<IntArg("0"), StrArg("r"), FnArg("cb")>>),
                    Query("^e%d", <<IntArg("0"), StrArg("i"), PtrArg("v")>>),
                    Query("^e", <<IntArg("0"), StrArg("r")>>) >>],
    [text |-> Chars("<r><a><b>1</b></a></r>"),
     queries |-> << Query("^e%F", <<IntArg("0"), StrArg("r"), FnArg("cb")>>),
                    Query("^e", <<IntArg("0"), StrArg("a")>>) >>],
    [text |-> Chars("<x>5<a>1</a></x>"),
     queries |-> << Query("^e%F", <<IntArg("0"), StrArg("x"), FnArg("cb")>>),
                    Query("%d", <<PtrArg("v")>>) >>],
    [text |-> Chars("<q>7</q>"),
     queries |-> << Query("%F", <<FnArg("cb")>>) >>],
    [text |-> Chars("<a w='1' h='2' k='3'>5</a>"),
     queries |-> << Query("^e^a%d^a%d", <<IntArg("0"), StrArg("a"),
                                          IntArg("0"), StrArg("w"), PtrArg("v"),
                                          IntArg("0"), StrArg("h"), PtrArg("v")>>),
                    Query("^e^a%d^a%d", <<IntArg("0"), StrArg("a"),
                                          IntArg("0"), StrArg("k"), PtrArg("v"),
                                          IntArg("0"), StrArg("w"), PtrArg("v")>>),
                    Query("^a%d", <<IntArg("0"), StrArg("h"), PtrArg("v")>>) >>],
    [text |-> Chars("<r>") \o <<"\n">> \o Chars("</r>"),
     queries |-> << Query("^e", <<IntArg("0"), StrArg("r")>>),
                    Query("^oe%d", <<IntArg("0"), StrArg("x"), PtrArg("v")>>) >>] }

\* the codes the host passes to ali_set_error
HostErrors == {ALI_ERROR_NONE, ALI_ERROR_MEMORY_FAILURE}

(***************************************************************************)
(* The state machine                                                       *)
(***************************************************************************)
\* the document as the machine record the operators work on
M == [els |-> elements, cur |-> current, error |-> error,
      next |-> next_element, dest |-> dest, jumped |-> FALSE,
      crashed |-> FALSE]

\* the queries of the host's calls that have returned, in the order of the
\* calls: 0 for a call that is not an ali_in; no more than MaxCalls are kept
Asked == IF last.op = "ali_open" THEN <<>>
         ELSE IF Len(last.pre.asked) >= MaxCalls THEN last.pre.asked
         ELSE Append(last.pre.asked, last.query)

Snapshot == [elements |-> elements, current |-> current, error |-> error,
             next_element |-> next_element, dest |-> dest, asked |-> Asked]

top == calls[Len(calls)]

\* host code is running: at top level, or in a callback of the innermost call
HostRuns ==
  /\ ~crashed
  /\ root # 0
  /\ (IF calls = <<>> THEN TRUE ELSE top.phase = "callback")

\* the element references the host may hold: those of open frames, of the
\* frames closed lately, and the one not handed out yet; never 0, which is
\* no reference, nor 1, which ali_in asserts it is not given. The counter
\* started at 2, so while it stands at 3 or more no reference below 2 is
\* taken for one that was handed out
Refs ==
  ({elements[i].element : i \in 1..Len(elements)}
     \cup {e \in {Int16(next_element - k) : k \in 0..(MaxCalls + 1)} :
             next_element >= 3 => e \in 2..next_element})
  \ {0, 1}

Store(m) ==
  /\ elements' = m.els
  /\ current' = m.cur
  /\ error' = m.error
  /\ next_element' = m.next
  /\ dest' = m.dest

\* the activations from depth k on are left and the API call 'call' returns v
Returns(k, v, call) ==
  /\ calls' = SubSeq(calls, 1, k - 1)
  /\ ret' = v
  /\ last' = call
  /\ returned' = TRUE
  /\ crashed' = FALSE

Faults ==
  /\ crashed' = TRUE
  /\ returned' = FALSE
  /\ UNCHANGED <<calls, ret, last, environment>>

\* longjmp(doc->environment, ...): to the setjmp of an ali_in in flight, which
\* then returns 0; a jump to the setjmp of a call that has returned is
\* undefined: a fault, or that call returning 0 once more to its caller
LongJump(m) ==
  /\ Store(m)
  /\ IF /\ environment.depth \in 1..Len(calls)
        /\ calls[environment.depth].id = environment.id
       THEN /\ Returns(environment.depth, 0, calls[environment.depth].call)
            /\ environment' = environment
     ELSE \/ Faults
          \/ /\ calls' = LET n == IF environment.depth - 1 < Len(calls)
                                    THEN environment.depth - 1
                                  ELSE Len(calls)
                          IN [k \in 1..n |->
                                IF k = n
                                  THEN [calls[k] EXCEPT !.phase = "callback"]
                                ELSE calls[k]]
             /\ ret' = 0
             /\ returned' = FALSE
             /\ crashed' = FALSE
             /\ UNCHANGED <<last, environment>>

(***************************************************************************)
(* Opening a document: ali_open with check_byte_order_mark and             *)
(* parse_xml_declaration.  A byte of the file that is no ASCII character   *)
(* is the string of its two hexadecimal digits ("FF"), a zero byte is NUL. *)
(* The host is little-endian, as the builds that have fopen_s and          *)
(* _strnicmp are: the uint32_t 0xfeff is the bytes FF FE 00 00.            *)
(***************************************************************************)
UpperCase == Chars("ABCDEFGHIJKLMNOPQRSTUVWXYZ")
LowerCase == Chars("abcdefghijklmnopqrstuvwxyz")
tolower(c) ==
  IF \E i \in 1..Len(UpperCase) : UpperCase[i] = c
    THEN LowerCase[CHOOSE i \in 1..Len(UpperCase) : UpperCase[i] = c]
  ELSE c

\* _strnicmp(&text[p], b, n) == 0 for a NUL terminated string b
RECURSIVE strnicmp_eq(_, _, _, _)
strnicmp_eq(p, b, k, n) ==
  IF n = 0 THEN TRUE
  ELSE LET cb == IF k <= Len(b) THEN b[k] ELSE NUL
       IN IF tolower(at(p)) # tolower(cb) THEN FALSE
          ELSE IF cb = NUL THEN TRUE
          ELSE strnicmp_eq(p + 1, b, k + 1, n - 1)

\* the bytes of the document from position p on are b
BytesAt(p, b) == \A i \in 1..Len(b) : at(p + i - 1) = b[i]

\* a variant of check_byte_order_mark that finds no mark
no_byte_order_mark(size) ==
  [pos |-> 1, endian |-> endian_unknown, encoding |-> encoding_unknown]

\* check_byte_order_mark: *pos, doc->endian and doc->encoding after it
check_byte_order_mark(size) ==
  IF size >= 4 /\ BytesAt(1, <<"FF", "FE", NUL, NUL>>)
    THEN [pos |-> 5, endian |-> endian_native, encoding |-> encoding_UTF_32]
  ELSE IF size >= 4 /\ BytesAt(1, <<NUL, NUL, "FE", "FF">>)
    THEN [pos |-> 5, endian |-> endian_swapped,
          encoding |-> encoding_UTF_32_SWAPPED]
  ELSE IF size >= 2 /\ BytesAt(1, <<"FF", "FE">>)
    THEN [pos |-> 3, endian |-> endian_native, encoding |-> encoding_UTF_16]
  ELSE IF size >= 2 /\ BytesAt(1, <<"FE", "FF">>)
    THEN [pos |-> 3, endian |-> endian_swapped,
          encoding |-> encoding_UTF_16_SWAPPED]
  ELSE IF size >= 3 /\ BytesAt(1, <<"EF", "BB", "BF">>)
    THEN [pos |-> 4, endian |-> endian_unknown, encoding |-> encoding_UTF_8]
  ELSE [pos |-> 1, endian |-> endian_unknown, encoding |-> encoding_unknown]

\* get_next_xml_declaration: the machine and the value found, 0 = NULL
get_next_xml_declaration(m, name) ==
  Only({
    IF m1.jumped THEN [m |-> m1, value |-> 0]
    ELSE IF ~strncmp_eq(name, 1, m1.els[m1.cur].pos, Len(name))
      THEN [m |-> m1, value |-> 0]
    ELSE Only({
      IF ~Valid(q)
        THEN [m |-> Jump([m1 EXCEPT !.els[m1.cur].pos = q],
                         ALI_ERROR_DATA_INCOMPLETE), value |-> 0]
      ELSE IF at(q) # "="
        THEN [m |-> [m1 EXCEPT !.els[m1.cur].pos = q,
                               !.error = ALI_ERROR_XML_DECLARATION_INVALID],
              value |-> 0]
      ELSE IF ~Valid(q + 1)
        THEN [m |-> Jump([m1 EXCEPT !.els[m1.cur].pos = q + 1],
                         ALI_ERROR_DATA_INCOMPLETE), value |-> 0]
      ELSE IF at(q + 1) \notin {"'", "\""}
        THEN [m |-> [m1 EXCEPT !.els[m1.cur].pos = q + 1,
                               !.error = ALI_ERROR_XML_DECLARATION_INVALID],
              value |-> 0]
      ELSE Only({
        IF ends = {}
          THEN [m |-> Jump([m1 EXCEPT !.els[m1.cur].pos = NulPos + 1],
                           ALI_ERROR_DATA_INCOMPLETE), value |-> 0]
        ELSE [m |-> [m1 EXCEPT !.els[m1.cur].pos = Min(ends) + 1],
              value |-> q + 2] :
        ends \in {{e \in (q + 3)..NulPos : at(e) = at(q + 1)}} }) :
      q \in {m1.els[m1.cur].pos + Len(name)} }) :
    m1 \in {skip_whitespace(m, m.cur)} })

\* the end of parse_xml_declaration, after the three values
declaration_end(m) ==
  Only({
    IF m1.jumped THEN m1
    ELSE IF ~strncmp_eq(Chars("?>"), 1, m1.els[m1.cur].pos, 2)
      THEN [m1 EXCEPT !.error = ALI_ERROR_XML_DECLARATION_INVALID]
    ELSE [m1 EXCEPT !.els[m1.cur].pos = @ + 2] :
    m1 \in {skip_whitespace(m, m.cur)} })

\* parse_xml_declaration: the machine and doc->encoding after it
parse_xml_declaration(m, enc, size) ==
  LET pos == m.els[m.cur].pos
  IN IF strncmp_eq(Chars("<?xml"), 1, pos, 5)
       THEN Only({
         IF v.m.jumped THEN [m |-> v.m, encoding |-> enc]
         ELSE IF v.value = 0
           THEN [m |-> [v.m EXCEPT !.error = ALI_ERROR_XML_DECLARATION_INVALID],
                 encoding |-> enc]
         ELSE Only({
           IF e.m.jumped THEN [m |-> e.m, encoding |-> enc]
           ELSE Only({
             [m |-> IF st.m.jumped THEN st.m ELSE declaration_end(st.m),
              encoding |->
                IF e.value = 0 \/ strnicmp_eq(e.value, Chars("UTF-8"), 1, 5)
                  THEN encoding_UTF_8
                ELSE IF strnicmp_eq(e.value, Chars("ISO-8859-"), 1, 9)
                  THEN encoding_ISO_8859_N
                ELSE IF strnicmp_eq(e.value, Chars("US-ASCII"), 1, 8)
                  THEN encoding_US_ASCII
                ELSE enc] :
             st \in {get_next_xml_declaration(e.m, Chars("standalone"))} }) :
           e \in {get_next_xml_declaration(v.m, Chars("encoding"))} }) :
         v \in {get_next_xml_declaration(
                  [m EXCEPT !.els[m.cur].pos = pos + 5], Chars("version"))} })
     ELSE IF size - (pos - 1) >= 4
       THEN IF BytesAt(pos, <<"<", NUL, "?", NUL>>)
              THEN [m |-> m, encoding |-> encoding_UTF_16]
            ELSE IF BytesAt(pos, <<NUL, "<", NUL, "?">>)
              THEN [m |-> m, encoding |-> encoding_UTF_16_SWAPPED]
            ELSE IF BytesAt(pos, <<"<", NUL, NUL, NUL>>)
              THEN [m |-> m, encoding |-> encoding_UTF_32]
            ELSE IF BytesAt(pos, <<NUL, NUL, NUL, "<">>)
              THEN [m |-> m, encoding |-> encoding_UTF_32_SWAPPED]
            ELSE IF BytesAt(pos, <<"L", "o", "A7", "94">>)
              THEN [m |-> m, encoding |-> encoding_EBCDIC]
            ELSE [m |-> [m EXCEPT !.error = ALI_ERROR_NOT_XML_DOCUMENT],
                  encoding |-> enc]
     ELSE [m |-> [m EXCEPT !.error = ALI_ERROR_NOT_XML_DOCUMENT],
           encoding |-> enc]

\* options & ALI_OPTION_INPUT_XML_DECLARATION
declaration_required(opts) ==
  (opts \div ALI_OPTION_INPUT_XML_DECLARATION) % 2 = 1

\* ali_open of a file of size bytes, read into text: file_in = fopen_s has
\* opened it, allocated = malloc has returned the buffer.  The document,
\* what ali_open returns and doc->encoding.
ali_open(size, file_in, allocated, opts) ==
  LET doc == [els |-> <<>>, cur |-> 0, error |-> ALI_ERROR_NONE, next |-> 2,
              dest |-> [d \in Dests |-> [n |-> 0, s |-> <<>>, w |-> 0]],
              jumped |-> FALSE, crashed |-> FALSE]
      failed(err) == [m |-> [doc EXCEPT !.error = err], result |-> 0,
                      encoding |-> encoding_unknown]
  IN IF ~file_in THEN failed(ALI_ERROR_FILE_MISSING)
     ELSE IF size = 0 THEN failed(ALI_ERROR_NOT_XML_DOCUMENT)
     ELSE IF ~allocated THEN failed(ALI_ERROR_MEMORY_FAILURE)
     ELSE Only({ Only({
       IF d.m.jumped
         THEN [m |-> [d.m EXCEPT !.jumped = FALSE], result |-> 0,
               encoding |-> d.encoding]
       ELSE Only({
         [m |-> IF err = ALI_ERROR_NONE
                  THEN [d.m EXCEPT
                          !.error = err,
                          !.els[d.m.cur].name = d.m.els[d.m.cur].pos,
                          !.els[d.m.cur].length = 0,
                          !.els[d.m.cur].last_markup_name = d.m.els[d.m.cur].pos,
                          !.els[d.m.cur].last_markup_name_length = 0]
                ELSE [d.m EXCEPT !.error = err],
          result |-> d.m.els[d.m.cur].element,
          encoding |-> d.encoding] :
         err \in {IF ~encoding_supported(d.encoding)
                    THEN ALI_ERROR_ENCODING_UNSUPPORTED
                  ELSE IF /\ d.m.error = ALI_ERROR_NOT_XML_DOCUMENT
                          /\ ~declaration_required(opts)
                    THEN ALI_ERROR_NONE
                  ELSE d.m.error} }) :
       d \in {parse_xml_declaration(
                new_current_element(doc, 0, bom.pos, 0, bom.pos, 0, tag_none),
                bom.encoding, size)} }) :
       bom \in {check_byte_order_mark(size)} })

\* an XML declaration with the pseudo attributes given, and a document
Declared(attributes) == Chars("<?xml") \o Chars(attributes) \o Chars("?><r/>")

\* the files ali_open is given besides those of the hosts: byte-order
\* marks, signatures of the encodings, declarations
Files ==
  { <<"FF", "FE", NUL, NUL, "<", NUL, NUL, NUL>>,
    <<NUL, NUL, "FE", "FF", NUL, NUL, NUL, "<">>,
    <<"FF", "FE", "<", NUL, "r", NUL, "/", NUL, ">", NUL>>,
    <<"FE", "FF", NUL, "<", NUL, "?">>,
    <<"FF", "FE">> \o Declared(" version='1'"),
    <<"FF", "FE">> \o Declared(" version='1' encoding='KOI8-R'"),
    <<"EF", "BB", "BF">> \o Declared(" version='1'"),
    <<"EF", "BB", "BF">> \o Declared(" version='1' encoding='KOI8-R'"),
    <<"EF", "BB", "BF">> \o Chars("<r/>"),
    <<"<", NUL, "?", NUL>>,
    <<NUL, "<", NUL, "?">>,
    <<"<", NUL, NUL, NUL>>,
    <<NUL, NUL, NUL, "<">>,
    <<"L", "o", "A7", "94">>,
    Declared(" version='1'"),
    Declared(" version='1' encoding='utf-8'"),
    Declared(" version='1' encoding='ISO-8859-1'"),
    Declared(" version='1' encoding='US-ASCII'"),
    Declared(" version='1' encoding='KOI8-R'"),
    Declared(" version='1' standalone='yes' "),
    Declared(" encoding='UTF-8'"),
    Declared(" version=1"),
    Declared(" version='1' encoding"),
    Chars("<?xml version='1"),
    Chars("<?xml version='1'"),
    Chars("<?xml version='1' ?<r/>"),
    Chars("<r/>"),
    Chars("<r>") }

\* the runs of white space between a start tag and the first child
MaxRun == 2
WhitespaceRuns == UNION {[1..n -> Whitespace] : n \in 1..MaxRun}

\* hosts that enter the child behind a run of white space
LineScenarios ==
  {[text |-> Chars("<r>") \o run \o Chars("<a>1</a></r>"),
    queries |-> << Query("^e^e", <<IntArg("0"), StrArg("r"),
                                   IntArg("0"), StrArg("a")>>) >>] :
     run \in WhitespaceRuns}

\* markup_name[count], markup_length[count] and markup_type[count] with
\* count >= ali_element_max are behind the arrays: the write ends the
\* process, or it lands in the memory behind them and the item is kept there
Overruns == {"fault", "spill"}

\* the start tags of the document
StartTags ==
  {k \in 1..(Len(text) - 1) :
     text[k] = "<" /\ text[k + 1] \notin {"/", "!", "?"}}

\* the calls of ali_open: the file, whether it can be opened and its buffer
\* allocated, the options, and the ali_in calls of the host
OpenCases ==
  {[file |-> sc.text, queries |-> sc.queries, file_in |-> TRUE,
    allocated |-> TRUE, options |-> ALI_OPTION_NONE] :
     sc \in Scenarios \cup LineScenarios}
  \cup
  {[file |-> f, queries |-> <<>>, file_in |-> TRUE, allocated |-> TRUE,
    options |-> o] :
     f \in Files, o \in {ALI_OPTION_NONE, ALI_OPTION_INPUT_XML_DECLARATION}}
  \cup
  {[file |-> f, queries |-> <<>>, file_in |-> b, allocated |-> ~b,
    options |-> ALI_OPTION_NONE] : f \in {<<>>, Chars("<r/>")}, b \in BOOLEAN}

\* the state after ali_open(doc, file, options, data) for one of the cases,
\* the counter of references standing where one of the numbers of frames
\* pushed before leaves it
OpenedAfter(cases, pushes) ==
  /\ \E c \in cases :
       /\ text = (IF c.file_in /\ c.allocated THEN c.file ELSE <<>>)
       /\ queries = c.queries
       /\ options = c.options
       /\ \E r \in {ali_open(Len(c.file), c.file_in, c.allocated, c.options)} :
            /\ elements = r.m.els
            /\ current = r.m.cur
            /\ error = r.m.error
            /\ \E n \in pushes : next_element = Int16(r.m.next + n)
            /\ dest = r.m.dest
            /\ encoding = r.encoding
            /\ root = r.result
            /\ ret = r.result
            /\ last = [op |-> "ali_open", id |-> 0, element |-> 0, query |-> 0,
                       pre |-> [elements |-> <<>>, current |-> 0,
                                error |-> ALI_ERROR_NONE, next_element |-> 2,
                                dest |-> r.m.dest, asked |-> <<>>]]
  /\ uninit \in IF \E k \in 1..(Len(text) - 1) : text[k] = "&" /\ text[k + 1] = "#"
                  THEN UninitValues ELSE {0}
  /\ overrun \in IF Cardinality(StartTags) > ali_element_max
                   THEN Overruns ELSE {"fault"}
  /\ environment = [id |-> 0, depth |-> 0]
  /\ calls = <<>>
  /\ ncalls = 0
  /\ beat = 0
  /\ returned = TRUE
  /\ crashed = FALSE

\* the state after ali_open(doc, file, options, data) for one of the cases
Opened(cases) == OpenedAfter(cases, {0})

Init == Opened(OpenCases) /\ Idle

\* ali_in(doc, element, format, args...) with the q-th query of the host:
\* the call up to the first directive of its format
AliInCall(element, q) ==
  /\ UNCHANGED <<beat, list, game, overrun, options, encoding, root, text, queries, uninit>>
  /\ \E r \in {ali_in(M, element)} :
     LET call == [op |-> "ali_in", id |-> ncalls + 1, element |-> element,
                  query |-> q, pre |-> Snapshot]
     IN IF r.m.crashed THEN Store(r.m) /\ Faults
        ELSE IF r.m.jumped THEN LongJump(r.m)
        ELSE IF ~r.parse
          THEN /\ Store(r.m)
               /\ Returns(Len(calls) + 1, 0, call)
               /\ environment' = environment
        ELSE /\ Store(r.m)
             /\ environment' = [id |-> ncalls + 1, depth |-> Len(calls) + 1]
             /\ calls' = Append(calls,
                  [id |-> ncalls + 1, phase |-> "parse", call |-> call,
                   format |-> queries[q].format, f |-> 1,
                   args |-> queries[q].args, argi |-> 1,
                   element |-> element, element_optional |-> FALSE,
                   element_wanted |-> FALSE, result |-> FALSE,
                   advance_to_content |-> FALSE, prefix_str |-> <<>>,
                   retval |-> 0, callback |-> "", new_element |-> 0,
                   fk |-> 0, passes |-> 0])
             /\ returned' = FALSE
             /\ crashed' = FALSE
             /\ UNCHANGED <<ret, last>>

\* the host calls ali_in(doc, element, format, args...) with its q-th query
AliIn(element, q) ==
  /\ HostRuns
  /\ ncalls < MaxCalls
  /\ ncalls' = ncalls + 1
  /\ AliInCall(element, q)

\* what a step of parse_input_format leaves: a fault, a longjmp, the return
\* of ali_in, or the activation at its next directive or in its callback
Continue(r) ==
  /\ UNCHANGED <<list, game, overrun, options, encoding, root, text, queries, uninit, ncalls>>
  /\ beat' = 1 - beat
  /\ IF r.m.crashed THEN Store(r.m) /\ Faults
     ELSE IF r.m.jumped THEN LongJump(r.m)
     ELSE IF r.status = "return"
       THEN /\ Store(r.m)
            /\ Returns(Len(calls), r.a.retval, top.call)
            /\ environment' = environment
     ELSE /\ r.a.passes <= MaxPasses
          /\ Store(r.m)
          /\ calls' = [calls EXCEPT ![Len(calls)] = r.a]
          /\ returned' = FALSE
          /\ crashed' = FALSE
          /\ UNCHANGED <<ret, last, environment>>

\* parse_input_format handles the next directive of the format
ParseStep ==
  /\ ~crashed
  /\ calls # <<>>
  /\ top.phase = "parse"
  /\ \E r \in {parse_step(M, top)} : Continue(r)

\* the callback of a %F returns to parse_input_format
CallbackReturn ==
  /\ ~crashed
  /\ calls # <<>>
  /\ top.phase = "callback"
  /\ \E r \in {callback_returned(M, top)} : Continue(r)

\* the host calls ali_is_element_done(doc, element); a build with assertions
\* stops when the reference is not that of the current frame, a build without
\* them goes on with the current frame
AliIsElementDone(element) ==
  /\ HostRuns
  /\ ncalls < MaxCalls
  /\ ncalls' = ncalls + 1
  /\ UNCHANGED <<beat, list, game, overrun, options, encoding, root, text, queries, uninit>>
  /\ \/ /\ elements[current].element # element
        /\ Store(M)
        /\ Faults
     \/ \E r \in {ali_is_element_done(M)} :
           IF r.m.crashed THEN Store(r.m) /\ Faults
           ELSE IF r.m.jumped THEN LongJump(r.m)
           ELSE /\ Store(r.m)
                /\ Returns(Len(calls) + 1, IF r.done THEN 1 ELSE 0,
                           [op |-> "ali_is_element_done", id |-> ncalls + 1,
                            element |-> element, query |-> 0, pre |-> Snapshot])
                /\ environment' = environment

\* the host calls ali_is_element_new(doc, element)
AliIsElementNew(element) ==
  /\ HostRuns
  /\ ncalls < MaxCalls
  /\ ncalls' = ncalls + 1
  /\ UNCHANGED <<beat, list, game, overrun, options, encoding, root, text, queries, uninit, elements, current, error,
                 next_element, dest, environment>>
  /\ Returns(Len(calls) + 1, IF ali_is_element_new(M, element) THEN 1 ELSE 0,
             [op |-> "ali_is_element_new", id |-> ncalls + 1,
              element |-> element, query |-> 0, pre |-> Snapshot])

\* the host calls ali_set_error(doc, new_error)
AliSetError(new_error) ==
  /\ HostRuns
  /\ ncalls < MaxCalls
  /\ ncalls' = ncalls + 1
  /\ UNCHANGED <<beat, list, game, overrun, options, encoding, root, text, queries, uninit, environment>>
  /\ Store(ali_set_error(M, new_error))
  /\ Returns(Len(calls) + 1, 0,
             [op |-> "ali_set_error", id |-> ncalls + 1, element |-> 0,
              query |-> 0, pre |-> Snapshot])

Next ==
  \/ \E element \in Refs : \E q \in 1..Len(queries) : AliIn(element, q)
  \/ ParseStep
  \/ CallbackReturn
  \/ \E element \in Refs : AliIsElementDone(element)
  \/ \E element \in Refs : AliIsElementNew(element)
  \/ \E new_error \in HostErrors : AliSetError(new_error)

Spec == Init /\ [][Next]_vars

\* the cases of ali_open whose host hands a callback to a '%F' and reads
\* the content of the current element, with a format that has no '^'
LoopCases ==
  {c \in OpenCases :
     /\ \E q \in 1..Len(c.queries) :
          \E k \in 1..Len(c.queries[q].format) : c.queries[q].format[k] = "F"
     /\ \E q \in 1..Len(c.queries) :
          \A k \in 1..Len(c.queries[q].format) :
             c.queries[q].format[k] \notin {"^", "F"}}

\* a callback calls ali_in once more when MaxCalls calls have been counted:
\* the code counts no calls, so the count stays where it is
AliInAgain(element, q) ==
  /\ HostRuns
  /\ calls # <<>>
  /\ ncalls = MaxCalls
  /\ ncalls' = ncalls
  /\ AliInCall(element, q)

\* the do-while of %F calls the callback once more when MaxPasses passes
\* have been counted: the code counts no passes, so the count stays
CallbackAgain ==
  /\ ~crashed
  /\ calls # <<>>
  /\ top.phase = "callback"
  /\ \E r \in {callback_returned(M, top)} :
       /\ ~r.m.crashed
       /\ ~r.m.jumped
       /\ r.status = "callback"
       /\ r.a.passes > MaxPasses
       /\ Continue([r EXCEPT !.a.passes = MaxPasses])

LoopNext ==
  \/ Next
  \/ \E element \in Refs : \E q \in 1..Len(queries) : AliInAgain(element, q)
  \/ CallbackAgain

\* parse_input_format is running in the innermost call
LibraryRuns == ~crashed /\ calls # <<>> /\ top.phase = "parse"

\* the callback of the innermost call is running
CallbackRuns == ~crashed /\ calls # <<>> /\ top.phase = "callback"

LoopInit == Opened(LoopCases) /\ Idle

\* the library runs in the calling thread: parse_input_format takes its
\* next step (ParseStep, enabled exactly when LibraryRuns); a callback makes
\* finitely many calls and then returns (CallbackReturn or CallbackAgain,
\* enabled exactly when CallbackRuns). These are the steps that flip beat.
LoopSpec ==
  /\ LoopInit
  /\ [][LoopNext]_vars
  /\ WF_beat(LibraryRuns /\ beat' = 1 - beat)
  /\ SF_beat(CallbackRuns /\ beat' = 1 - beat)

\* the cases of ali_open whose host enters an element in a '%F' loop and
\* enters a child of it in the callback
RefCases ==
  {c \in OpenCases :
     /\ c.file = Chars("<r><a><b>1</b></a></r>")
     /\ c.queries # <<>>}

\* the numbers of frames the host has pushed, and closed again, before the
\* calls that are followed here: none, and those that leave the counter of
\* new_current_element at 32767, at -1 and at 1
Pushes == {0, 32764, 65532, 65534}

\* the reader late in the life of a document with many elements
RefInit == OpenedAfter(RefCases, Pushes) /\ Idle
RefSpec == RefInit /\ [][Next]_vars

(***************************************************************************)
(* Vocabulary of the properties                                            *)
(***************************************************************************)
\* an ali_in call has just returned to the host
AliInReturned == returned /\ last.op = "ali_in"

\* that call began with the error state clear
BeganClear == last.pre.error = ALI_ERROR_NONE

\* the query of the ali_in call that returned last
TheQuery == queries[last.query]

\* the frame the call named, as an index into the stack it began with
NamedFrame == find_element(last.pre.elements, last.element)

\* the call named the frame that was current when it began
OnCurrentFrame ==
  /\ last.pre.current # 0
  /\ last.pre.elements[last.pre.current].element = last.element

\* the positions of the '^' of a format
Carets(format) == {k \in 1..Len(format) : format[k] = "^"}

\* the last directive of the query: its optional marker, letter and name
LastCaret == CHOOSE k \in Carets(TheQuery.format) :
               \A j \in Carets(TheQuery.format) : j <= k
TargetOptional ==
  LastCaret < Len(TheQuery.format) /\ TheQuery.format[LastCaret + 1] = "o"
TargetLetter ==
  LET k == IF TargetOptional THEN LastCaret + 2 ELSE LastCaret + 1
  IN IF k <= Len(TheQuery.format) THEN TheQuery.format[k] ELSE NUL
NameArgs == {k \in 1..Len(TheQuery.args) : TheQuery.args[k].t = "str"}
TargetName ==
  Chars(TheQuery.args[CHOOSE k \in NameArgs : \A j \in NameArgs : j <= k].v)

\* the conversion character of a query with one directive and one conversion
Conversion ==
  LET f == TheQuery.format
  IN IF Len(f) >= 2 /\ f[Len(f) - 1] = "%" THEN f[Len(f)] ELSE NUL

\* the document holds string s at position k
StartsAt(k, s) ==
  /\ k >= 1
  /\ k + Len(s) - 1 <= Len(text)
  /\ SubSeq(text, k, k + Len(s) - 1) = s

\* the positions where a markup item called name has its name
NamePositions(name) ==
  {k \in 2..Len(text) : /\ StartsAt(k, name)
                        /\ text[k - 1] \in {"<", " "}
                        /\ at(k + Len(name)) \in {">", "/", " ", "=", "$", NUL}}

\* a query with an '^e' or '^a' directive as its last one
ElementOrAttributeQuery ==
  /\ AliInReturned
  /\ Carets(TheQuery.format) # {}
  /\ TargetLetter \in {"e", "a"}

\* no markup item of the document has the name of the last directive, and
\* the items of the directives before it are there
TargetAbsent ==
  /\ NamePositions(TargetName) = {}
  /\ \A k \in NameArgs : NamePositions(Chars(TheQuery.args[k].v)) = {}
                           => Chars(TheQuery.args[k].v) = TargetName

\* the step is a call of ali_set_error
SetErrorStep ==
  /\ ncalls' = ncalls + 1
  /\ returned'
  /\ last'.op = "ali_set_error"
  /\ last'.id = ncalls'

\* the failure kinds of the scanner
ScanFailures == {ALI_ERROR_TAG_INVALID, ALI_ERROR_DATA_INCOMPLETE}

\* the frame the call named was in its first pass when the call began
FirstPass == NamedFrame # 0 /\ last.pre.elements[NamedFrame].new_element

\* the query has one '^' directive
OneDirective == Cardinality(Carets(TheQuery.format)) = 1

\* the tags that open and that close between positions a and b
Opens(a, b) == {p \in a..b : text[p] = "<" /\ at(p + 1) # "/"}
Closes(a, b) == {p \in a..b : at(p + 1) = (IF text[p] = "<" THEN "/"
                                           ELSE IF text[p] = "/" THEN ">"
                                           ELSE NUL)}

\* the '<' of the element that the item with its name at k belongs to: the
\* tag an attribute stands in, the innermost element open around a child
\* element; 0 for the document element
Owner(k) ==
  LET S == IF text[k - 1] = " " THEN {j \in 1..(k - 1) : text[j] = "<"}
           ELSE {j \in 1..(k - 2) :
                   /\ text[j] = "<"
                   /\ at(j + 1) # "/"
                   /\ Cardinality(Opens(j + 1, k - 2))
                        = Cardinality(Closes(j + 1, k - 2))}
  IN IF S = {} THEN 0 ELSE CHOOSE j \in S : \A i \in S : i <= j

\* the item whose name is at k belongs to the element of frame e, and is in
\* the cache of e or still ahead of its cursor, e not being read to its end;
\* no failed query has left an item of e marked as read
Available(e, k) ==
  /\ IF Owner(k) = 0 THEN e.element_type = tag_none
     ELSE e.element_type = tag_element /\ e.name = Owner(k) + 1
  /\ e.last_markup_read = ali_element_none
  /\ \/ \E i \in 1..e.count : e.markup_name[i] = k
     \/ e.pos <= k /\ ~e.elements_read

\* the item whose name is at k is of the kind the directive letter asks for
KindAt(k) == IF TargetLetter = "e" THEN text[k - 1] = "<" ELSE text[k - 1] = " "

\* the item called name at k has no content: <n/>, <n />, <n></n>, n=""
EmptyAt(k, name) ==
  LET after == k + Len(name)
  IN IF text[k - 1] = "<"
       THEN \/ StartsAt(after, <<"/", ">">>)
            \/ StartsAt(after, <<" ", "/", ">">>)
            \/ StartsAt(after, <<">", "<", "/">> \o name \o <<">">>)
     ELSE StartsAt(after, <<"=", "\"", "\"">>)

\* the element called name at k has d digits as its content
IntContent(k, name, d) ==
  /\ text[k - 1] = "<"
  /\ at(k + Len(name)) = ">"
  /\ \A j \in 1..d : at(k + Len(name) + j) \in Digits
  /\ StartsAt(k + Len(name) + 1 + d, <<"<", "/">> \o name \o <<">">>)

NumericConversions == {"d", "i", "u", "o", "x", "X", "c", "e", "f", "g"}

(***************************************************************************)
(* Properties                                                              *)
(***************************************************************************)
\* C1: apart from calls of ali_set_error, the error state changes at most
\* once, from ALI_ERROR_NONE to one failure kind: once it is a failure kind
\* no step of ali_in, ali_is_element_new or ali_is_element_done clears it
\* or replaces it by another kind.
C1_ErrorSetOnce ==
  [][(error # ALI_ERROR_NONE /\ ~SetErrorStep) => error' = error]_vars

\* C2: an ali_in that begins with the error state set, whatever reference
\* and format it is given, returns 0 and leaves the frame stack, every
\* frame (cursor, flags, cache), the error state and every destination as
\* they were; ali_is_element_done returns true in that state.
C2_ErrorShortCircuits ==
  /\ (AliInReturned /\ ~BeganClear) =>
       /\ ret = 0
       /\ elements = last.pre.elements
       /\ current = last.pre.current
       /\ next_element = last.pre.next_element
       /\ error = last.pre.error
       /\ dest = last.pre.dest
  /\ (returned /\ last.op = "ali_is_element_done" /\ ~BeganClear) => ret = 1

\* an ali_in on a reference other than the current frame's has returned
\* after the library had reported a missing tag
C2_Witness ==
  /\ AliInReturned
  /\ last.pre.error = ALI_ERROR_TAG_MISSING
  /\ ~OnCurrentFrame
  /\ ret = 0

\* C3: once a scan failure (TagInvalid, DataIncomplete) is set inside a
\* query, the steps that query still takes record no cache entry, push or
\* pop no frame and write no destination.
C3_FailureAborts ==
  [][(calls # <<>> /\ top.phase = "parse" /\ error \in ScanFailures) =>
       /\ Len(elements') = Len(elements)
       /\ dest' = dest
       /\ \A k \in 1..Len(elements) :
            elements'[k].count <= elements[k].count]_vars

\* C4: an ali_in that leaves a failure kind of the library in the error
\* state returns 0, and a non-zero return value is the reference of the
\* frame that is current when the call returns.
C4_ZeroOnFailure ==
  AliInReturned =>
    /\ error \notin {ALI_ERROR_NONE, ALI_ERROR_MEMORY_FAILURE} => ret = 0
    /\ ret # 0 => current # 0 /\ elements[current].element = ret

\* the '<' of the last tag of the document, and whether a frame has scanned
\* into that tag
LastTag == CHOOSE k \in 1..Len(text) :
             text[k] = "<" /\ \A j \in (k + 1)..Len(text) : text[j] # "<"
ScannedInto(els) ==
  \E k \in 1..Len(els) :
     \/ els[k].pos > LastTag
     \/ \E i \in 1..els[k].count : els[k].markup_name[i] > LastTag

\* C5: in a document that ends inside a tag, an ali_in that scans into the
\* truncated tag leaves the error state at ALI_ERROR_DATA_INCOMPLETE.
C5_TruncationReported ==
  (/\ AliInReturned
   /\ BeganClear
   /\ text[Len(text)] # ">"
   /\ ~ScannedInto(last.pre.elements)
   /\ ScannedInto(elements)) => error = ALI_ERROR_DATA_INCOMPLETE

\* C6: an ali_in given a reference of no open frame sets
\* ALI_ERROR_ELEMENT_INVALID, returns 0 and changes no frame.
C6_StaleReference ==
  (AliInReturned /\ BeganClear /\ NamedFrame = 0) =>
    /\ error = ALI_ERROR_ELEMENT_INVALID
    /\ ret = 0
    /\ elements = last.pre.elements

\* C7: on a frame in its first pass, a query whose last '^e' or '^a'
\* directive names an item the document does not hold sets
\* ALI_ERROR_TAG_MISSING and returns 0 when the directive has no 'o'; with
\* the 'o' it sets no error, writes no destination and runs no callback
\* pass (no frame leaves its first pass).
C7_AbsentOnFirstPass ==
  (ElementOrAttributeQuery /\ BeganClear /\ FirstPass /\ TargetAbsent) =>
    IF TargetOptional
      THEN /\ error = ALI_ERROR_NONE
           /\ dest = last.pre.dest
           /\ \A k \in 1..Len(elements) :
                elements[k].new_element =
                  (k <= Len(last.pre.elements) => last.pre.elements[k].new_element)
    ELSE error = ALI_ERROR_TAG_MISSING /\ ret = 0

\* C8: on a frame whose first callback pass is over (new_element false), a
\* query of one required '^e' or '^a' directive naming an item the document
\* does not hold returns 0 and leaves the error state ALI_ERROR_NONE.
C8_AbsentOnLaterPass ==
  (/\ ElementOrAttributeQuery
   /\ BeganClear
   /\ OneDirective
   /\ ~TargetOptional
   /\ NamedFrame # 0
   /\ ~last.pre.elements[NamedFrame].new_element
   /\ TargetAbsent) => ret = 0 /\ error = ALI_ERROR_NONE

\* the call read, with a required numeric conversion and on the current
\* frame in its first pass, an item that is there and has no content
RequiredOfEmpty ==
  /\ ElementOrAttributeQuery
  /\ BeganClear
  /\ OnCurrentFrame
  /\ FirstPass
  /\ OneDirective
  /\ ~TargetOptional
  /\ Conversion \in NumericConversions
  /\ NamePositions(TargetName) # {}
  /\ \A k \in NamePositions(TargetName) :
       /\ KindAt(k)
       /\ EmptyAt(k, TargetName)
       /\ Available(last.pre.elements[last.pre.current], k)

\* C9: a required numeric conversion of an element or attribute that is
\* there with empty content (an empty-element tag included) sets
\* ALI_ERROR_CONTENT_MISSING, ali_in returns 0 and the destination is as it
\* was.
C9_EmptyContent ==
  RequiredOfEmpty =>
    /\ error = ALI_ERROR_CONTENT_MISSING
    /\ ret = 0
    /\ dest = last.pre.dest

\* the empty attribute w="" was asked for as a number
C9_Witness ==
  /\ RequiredOfEmpty
  /\ TargetLetter = "a"
  /\ error = ALI_ERROR_CONTENT_MISSING

\* C10: ali_in(parent, "^e%d", 0, name, &v) for the one child called name,
\* whose content is the decimal integer n, on a parent not yet read to its
\* end, stores n in v, leaves the stack depth as it was, removes the child
\* from the parent's cache and leaves the parent's cursor just past the
\* child's end tag.
C10_ReadIntChild ==
  (AliInReturned /\ BeganClear /\ OnCurrentFrame
     /\ ~last.pre.elements[last.pre.current].elements_read
     /\ TheQuery.format = Chars("^e%d")) =>
    \A k \in NamePositions(TargetName) : \A d \in 1..Len(text) :
      (/\ NamePositions(TargetName) = {k}
       /\ IntContent(k, TargetName, d)
       /\ Available(last.pre.elements[last.pre.current], k)) =>
        LET content == k + Len(TargetName) + 1
            e == elements[current]
        IN /\ error = ALI_ERROR_NONE
           /\ ret = last.element
           /\ dest["v"].n = sscanf_int(SubSeq(text, content, content + d - 1), 10).v
           /\ Len(elements) = Len(last.pre.elements)
           /\ \A i \in 1..e.count : e.markup_name[i] # k
           /\ e.pos = content + d + Len(TargetName) + 3

\* the attribute called name at k has d digits between double quotes
IntAttribute(k, name, d) ==
  /\ text[k - 1] = " "
  /\ StartsAt(k + Len(name), <<"=", "\"">>)
  /\ \A j \in 1..d : at(k + Len(name) + 1 + j) \in Digits
  /\ at(k + Len(name) + 2 + d) = "\""

\* the call asked the parent of the frame that was current, entered with
\* '^e', for a further element called as the last directive says, and the
\* document has no element of that name behind the one entered
NoFurtherSibling ==
  /\ AliInReturned
  /\ BeganClear
  /\ TheQuery.format = Chars("^oe")
  /\ NamedFrame # 0
  /\ last.pre.current = NamedFrame + 1
  /\ last.pre.elements[last.pre.current].element_type = tag_element
  /\ \A k \in NamePositions(TargetName) :
       text[k - 1] = "<" => k <= last.pre.elements[last.pre.current].name

\* C11: in a frame entered with '^e', ali_in(frame, "^a%d", 0, name, &v)
\* stores the value of the attribute of that name in v; a following '^oe'
\* on the parent for a further sibling, when there is none, pops the frame
\* of the child and returns 0 with the error state still ALI_ERROR_NONE.
C11_AttributesThenSibling ==
  /\ (AliInReturned /\ BeganClear /\ OnCurrentFrame
        /\ TheQuery.format = Chars("^a%d")) =>
       \A k \in NamePositions(TargetName) : \A d \in 1..Len(text) :
         (/\ NamePositions(TargetName) = {k}
          /\ IntAttribute(k, TargetName, d)
          /\ Available(last.pre.elements[last.pre.current], k)) =>
           LET value == k + Len(TargetName) + 2
           IN /\ error = ALI_ERROR_NONE
              /\ ret = last.element
              /\ dest["v"].n =
                   sscanf_int(SubSeq(text, value, value + d - 1), 10).v
  /\ NoFurtherSibling =>
       /\ ret = 0
       /\ error = ALI_ERROR_NONE
       /\ current = NamedFrame
       /\ Len(elements) = NamedFrame

\* both attributes of <a w="10" h="20"/> were read and the parent was asked
\* for a further a
C11_Witness ==
  /\ NoFurtherSibling
  /\ last.pre.dest["v"].w = 2
  /\ last.pre.elements[last.pre.current].count = 0
  /\ Len(elements) = Len(last.pre.elements) - 1

\* the child elements of the element of frame e, by the position of their
\* names, the j-th of them, and the number an element holds as its content
Children(e) ==
  {k \in 3..Len(text) : /\ text[k - 1] = "<"
                        /\ text[k] \in NameStartChar
                        /\ e.element_type = tag_element
                        /\ e.name = Owner(k) + 1}
Item(e, j) ==
  CHOOSE k \in Children(e) : Cardinality({i \in Children(e) : i < k}) = j - 1
ItemValue(k, name) ==
  LET content == k + Len(name) + 1
      end == Min({q \in content..NulPos : at(q) \notin Digits})
  IN sscanf_int(SubSeq(text, content, end - 1), 10).v

\* the '>' that ends the tag starting at or before k
TagEnd(k) == Min({q \in k..NulPos : at(q) \in {">", NUL}})

\* the start tags and the end tags of the document between a and b; an
\* empty-element tag is neither
OpenTags(a, b) ==
  {k \in a..b : /\ at(k) = "<" /\ at(k + 1) \notin {"/", "!", "?", NUL}
                /\ at(TagEnd(k) - 1) # "/"}
CloseTags(a, b) == {k \in a..b : at(k) = "<" /\ at(k + 1) = "/"}

\* the end tags that balance the start tag whose name is at n
Balancing(n) ==
  {q \in CloseTags(TagEnd(n), Len(text)) :
     Cardinality(OpenTags(TagEnd(n), q - 1))
       = Cardinality(CloseTags(TagEnd(n), q - 1))}

\* the element whose name is at n is complete in the document
Complete(n) ==
  /\ at(TagEnd(n)) = ">"
  /\ at(TagEnd(n) - 1) = "/" \/ Balancing(n) # {}

\* the element of frame e is complete in the document and every child of
\* it is called name
AllCalled(e, name) ==
  /\ Children(e) # {}
  /\ Children(e) \subseteq NamePositions(name)
  /\ Complete(e.name)

\* the callback of a '^e%F' returns from its k-th invocation, in which it
\* has read one item with '^e%d', the k-th call after the ali_in of the loop
PassRead(k) ==
  /\ calls # <<>>
  /\ top.phase = "callback"
  /\ top.format = Chars("^e%F")
  /\ top.passes = k
  /\ ncalls' = ncalls
  /\ calls' # calls
  /\ returned
  /\ last.op = "ali_in"
  /\ last.id = top.id + k
  /\ last.element = top.new_element
  /\ queries[last.query].format = Chars("^e%d")
  /\ ret # 0
  /\ error = ALI_ERROR_NONE
  /\ current # 0
  /\ elements[current].element = top.new_element
  /\ AllCalled(elements[current], TargetName)

\* the k-th ali_in of a loop 'while (ali_in(frame, "^oe%d", 0, name, &v))'
\* that follows the '^e' which entered the frame has returned
LoopCall(k) ==
  /\ AliInReturned
  /\ calls = <<>>
  /\ TheQuery.format = Chars("^oe%d")
  /\ OnCurrentFrame
  /\ last.id = k + 1
  /\ last.pre.dest["v"].w = k - 1
  /\ last.pre.error = ALI_ERROR_NONE
  /\ AllCalled(last.pre.elements[last.pre.current], TargetName)

\* C12: on a frame whose n children all have one name, a '^e%F' whose
\* callback reads one item per invocation calls it again after the k-th
\* invocation when k < n and leaves the loop after the n-th, the k-th
\* invocation having read the k-th item; the k-th call of the loop
\* 'while (ali_in(frame, "^oe%d", 0, name, &v))' reads the k-th item for
\* k <= n and returns 0 for k = n + 1; no error is set.
C12_OncePerItem ==
  /\ [][\A k \in 1..(MaxPasses + 1) :
          PassRead(k) =>
            LET e == elements[current]
                n == Cardinality(Children(e))
            IN /\ k <= n
               /\ dest["v"].n = ItemValue(Item(e, k), TargetName)
               /\ error' = ALI_ERROR_NONE
               /\ IF k < n
                    THEN /\ Len(calls') = Len(calls)
                         /\ calls'[Len(calls)].phase = "callback"
                         /\ calls'[Len(calls)].passes = k + 1
                  ELSE /\ Len(calls') = Len(calls)
                       /\ calls'[Len(calls)].phase = "parse"
                       /\ Len(elements') = Len(elements) - 1]_vars
  /\ [](\A k \in 1..MaxCalls :
          LoopCall(k) =>
            LET e == last.pre.elements[last.pre.current]
                n == Cardinality(Children(e))
            IN /\ error = ALI_ERROR_NONE
               /\ k <= n + 1
               /\ IF k <= n
                    THEN /\ ret = last.element
                         /\ dest["v"].n = ItemValue(Item(e, k), TargetName)
                         /\ dest["v"].w = k
                  ELSE ret = 0 /\ dest = last.pre.dest)

\* the ali_in of the '^e%F' loop over <i>1</i><i>2</i> has returned after
\* two invocations of the callback, each with one read
C12_Witness ==
  /\ AliInReturned
  /\ TheQuery.format = Chars("^e%F")
  /\ ncalls = 3
  /\ dest["v"].w = 2
  /\ dest["v"].n = 2
  /\ error = ALI_ERROR_NONE

\* ali_is_element_done has returned for the current frame and the step is
\* the next call of it on the same frame, which returns
SecondCall ==
  /\ returned
  /\ last.op = "ali_is_element_done"
  /\ current # 0
  /\ last.element = elements[current].element
  /\ ncalls' = ncalls + 1
  /\ returned'
  /\ last'.op = "ali_is_element_done"
  /\ last'.id = ncalls + 1
  /\ last'.element = last.element

\* C13: a second ali_is_element_done on the current frame, directly after
\* the first, returns what the first returned and leaves the frames, the
\* current frame and the error as they were.
C13_DoneIdempotent ==
  [][SecondCall =>
       /\ ret' = ret
       /\ elements' = elements
       /\ current' = current
       /\ error' = error]_vars

\* no ali_in that returned before the last one began had name among its
\* arguments, and every earlier call of the host is in the record
NotAsked(name) ==
  /\ Len(last.pre.asked) = last.id - 1
  /\ \A i \in 1..Len(last.pre.asked) :
       LET q == last.pre.asked[i]
       IN q # 0 => \A j \in 1..Len(queries[q].args) :
                     (queries[q].args[j].t = "str"
                        => Chars(queries[q].args[j].v) # name)

\* C14: whatever the order of the requests before it, ali_in(frame,
\* "^e%d", 0, name, &v) or ali_in(frame, "^a%d", 0, name, &v) for an item of
\* the frame's element that no earlier query named, its value an integer,
\* stores that integer and sets no error.
C14_AnyOrder ==
  (AliInReturned /\ BeganClear /\ OnCurrentFrame /\ calls = <<>>
     /\ TheQuery.format \in {Chars("^e%d"), Chars("^a%d")}
     /\ NotAsked(TargetName)) =>
    \A k \in NamePositions(TargetName) : \A d \in 1..Len(text) :
      (/\ NamePositions(TargetName) = {k}
       /\ KindAt(k)
       /\ (IntContent(k, TargetName, d) \/ IntAttribute(k, TargetName, d))
       /\ LET e == last.pre.elements[last.pre.current]
          IN IF Owner(k) = 0 THEN e.element_type = tag_none
             ELSE e.element_type = tag_element /\ e.name = Owner(k) + 1) =>
        LET value == k + Len(TargetName) + (IF text[k - 1] = "<" THEN 1 ELSE 2)
        IN /\ error = ALI_ERROR_NONE
           /\ ret = last.element
           /\ dest["v"].n = sscanf_int(SubSeq(text, value, value + d - 1), 10).v

\* the decimal number that stands at position c of the document
NumberAt(c) ==
  LET end == Min({q \in c..NulPos : at(q) \notin Digits})
  IN sscanf_int(SubSeq(text, c, end - 1), 10).v

\* the numbers held by the items of the asked kind called name: the content
\* of an element, behind the '>' of its start tag, the value of an attribute
ValuesOf(name) ==
  {NumberAt(IF text[k - 1] = "<"
              THEN 1 + Min({q \in k..NulPos : at(q) \in {">", NUL}})
            ELSE k + Len(name) + 2) :
     k \in {p \in NamePositions(name) : KindAt(p)}}

\* C15: a query whose last directive is '^e' or '^a' with a NAME, followed
\* by %d, that sets no error and stores a value has stored the value of an
\* item of that kind whose name is NAME, not of one whose name is a proper
\* prefix of NAME or has NAME as a proper prefix.
C15_ExactName ==
  (/\ ElementOrAttributeQuery
   /\ BeganClear
   /\ Conversion = "d"
   /\ error = ALI_ERROR_NONE
   /\ ret # 0
   /\ dest["v"].w = last.pre.dest["v"].w + 1) =>
    dest["v"].n \in ValuesOf(TargetName)

\* the instructions documented for ali_in
DocumentedInstructions == {"e", "a", "c", "C", "P", "*"}

\* C16: a query of one '^' directive, begun with no error set, ends with
\* ALI_ERROR_UNKNOWN_XML_INSTRUCTION exactly when the letter of the
\* directive is none of e, a, c, C, P and *, and then ali_in returns 0.
C16_DocumentedLetters ==
  (/\ AliInReturned
   /\ BeganClear
   /\ Cardinality(Carets(TheQuery.format)) = 1
   /\ TargetLetter \notin {"%", "^", NUL}) =>
    /\ error = ALI_ERROR_UNKNOWN_XML_INSTRUCTION
         <=> TargetLetter \notin DocumentedInstructions
    /\ TargetLetter \notin DocumentedInstructions => ret = 0

\* ali_open has returned and the host has made no call yet
AfterOpen == returned /\ last.op = "ali_open"

\* C17: ali_open returns a non-zero reference exactly when it leaves the
\* error state at ALI_ERROR_NONE, and 0 whenever it has set an error.
C17_ZeroIffFailed ==
  AfterOpen => (ret # 0 <=> error = ALI_ERROR_NONE)

\* the file begins with a byte-order mark of UTF-16 or UTF-32, or its first
\* four bytes are the signature of UTF-16, UTF-32 or EBCDIC
WideByteOrderMark ==
  \/ BytesAt(1, <<"FF", "FE">>)
  \/ BytesAt(1, <<"FE", "FF">>)
  \/ Len(text) >= 4 /\ BytesAt(1, <<NUL, NUL, "FE", "FF">>)
WideSignature ==
  /\ Len(text) >= 4
  /\ \/ BytesAt(1, <<"<", NUL, "?", NUL>>)
     \/ BytesAt(1, <<NUL, "<", NUL, "?">>)
     \/ BytesAt(1, <<"<", NUL, NUL, NUL>>)
     \/ BytesAt(1, <<NUL, NUL, NUL, "<">>)
     \/ BytesAt(1, <<"L", "o", "A7", "94">>)

\* C18: after ali_open of a file that begins with a UTF-16 or UTF-32
\* byte-order mark or with the signature of UTF-16, UTF-32 or EBCDIC the
\* error is ALI_ERROR_ENCODING_UNSUPPORTED, whatever the options; it is not
\* that error when the encoding is UTF-8, ISO-8859-N or US-ASCII.
C18_WideEncodingsRejected ==
  (AfterOpen /\ text # <<>>) =>
    /\ (WideByteOrderMark \/ WideSignature)
         => error = ALI_ERROR_ENCODING_UNSUPPORTED
    /\ encoding \in {encoding_UTF_8, encoding_ISO_8859_N, encoding_US_ASCII}
         => error # ALI_ERROR_ENCODING_UNSUPPORTED

\* where the document starts behind a byte-order mark, and the encoding the
\* mark stands for
AfterMark ==
  IF BytesAt(1, <<"EF", "BB", "BF">>) THEN 4
  ELSE IF BytesAt(1, <<"FF", "FE">>) \/ BytesAt(1, <<"FE", "FF">>) THEN 3
  ELSE 1
MarkEncoding ==
  IF BytesAt(1, <<"EF", "BB", "BF">>) THEN encoding_UTF_8
  ELSE IF BytesAt(1, <<"FF", "FE">>) THEN encoding_UTF_16
  ELSE IF BytesAt(1, <<"FE", "FF">>) THEN encoding_UTF_16_SWAPPED
  ELSE encoding_unknown

\* the file holds a well-formed declaration with a version and an encoding
\* whose name is none of UTF-8, ISO-8859-N and US-ASCII
NamesOtherEncoding ==
  LET start == Chars("<?xml version='1' encoding='")
      name == AfterMark + Len(start)
  IN /\ StartsAt(AfterMark, start)
     /\ ~strnicmp_eq(name, Chars("UTF-8"), 1, 5)
     /\ ~strnicmp_eq(name, Chars("ISO-8859-"), 1, 9)
     /\ ~strnicmp_eq(name, Chars("US-ASCII"), 1, 8)
     /\ \E q \in (name + 1)..Len(text) :
          /\ StartsAt(q, Chars("'?>"))
          /\ \A j \in name..(q - 1) : text[j] # "'"

ReadsTextOfX ==
  /\ AliInReturned
  /\ BeganClear
  /\ last.pre.asked = <<>>
  /\ last.element = root
  /\ Len(TheQuery.format) = 4
  /\ TheQuery.format[1] = "^" /\ TheQuery.format[2] = "e"
  /\ TheQuery.format[3] = "%" /\ TheQuery.format[4] = "s"
  /\ TheQuery.args[3] = PtrArg("s")
  /\ StartsAt(1, Chars("<x>"))
  /\ \E q \in 4..Len(text) :
       /\ StartsAt(q, Chars("</x>"))
       /\ \A j \in 4..(q - 1) : text[j] \notin {"<", "\r", "\n", "\t"}

\* the text of x
TextOfX == SubSeq(text, 4, Min({q \in 4..Len(text) : text[q] = "<"}) - 1)

\* the value of a numeral in base b
RECURSIVE Numeral(_, _)
Numeral(digits, b) ==
  IF digits = <<>> THEN 0
  ELSE Numeral(SubSeq(digits, 1, Len(digits) - 1), b) * b
         + DigitVal(digits[Len(digits)])

\* the character a reference &name; stands for, NUL when it is not well
\* formed: one of the five predefined entities, #digits or #xhexdigits
Referenced(name) ==
  IF name = Chars("lt") THEN "<"
  ELSE IF name = Chars("gt") THEN ">"
  ELSE IF name = Chars("amp") THEN "&"
  ELSE IF name = Chars("apos") THEN "'"
  ELSE IF name = Chars("quot") THEN "\""
  ELSE IF /\ Len(name) > 1 /\ name[1] = "#"
          /\ \A k \in 2..Len(name) : name[k] \in Digits
    THEN AsciiChar(Numeral(SubSeq(name, 2, Len(name)), 10))
  ELSE IF /\ Len(name) > 2 /\ name[1] = "#" /\ name[2] = "x"
          /\ \A k \in 3..Len(name) : name[k] \in HexDigits
    THEN AsciiChar(Numeral(SubSeq(name, 3, Len(name)), 16))
  ELSE NUL

\* the text s with its references replaced, up to the first reference that
\* is not well formed; ok tells that there was none
RECURSIVE Replaced(_)
Replaced(s) ==
  IF s = <<>> THEN [ok |-> TRUE, out |-> <<>>]
  ELSE IF s[1] # "&"
    THEN LET rest == Replaced(Tail(s))
         IN [ok |-> rest.ok, out |-> <<s[1]>> \o rest.out]
  ELSE LET ends == {q \in 2..Len(s) : s[q] = ";"}
           q == Min(ends)
           ch == Referenced(SubSeq(s, 2, q - 1))
           rest == Replaced(SubSeq(s, q + 1, Len(s)))
       IN IF ends = {} \/ ch = NUL THEN [ok |-> FALSE, out |-> <<>>]
          ELSE [ok |-> rest.ok, out |-> <<ch>> \o rest.out]

\* C20: reading the text of an element with %s replaces each predefined
\* entity by its character and each well-formed numeric reference by its
\* code point and copies the other characters; at the first reference that
\* is not well formed the call fails with ALI_ERROR_TAG_INVALID and the
\* buffer holds nothing for that reference.
C20_ReferencesDecoded ==
  ReadsTextOfX =>
    /\ dest["s"].s = Replaced(TextOfX).out
    /\ error = (IF Replaced(TextOfX).ok THEN ALI_ERROR_NONE
                ELSE ALI_ERROR_TAG_INVALID)

\* the run of white space behind the start tag of r, and the first call
\* after ali_open has entered the child a behind it
TheRun == SubSeq(text, 4, Min({q \in 4..Len(text) : text[q] = "<"}) - 1)
EnteredBehindRun ==
  /\ AliInReturned
  /\ BeganClear
  /\ last.pre.asked = <<>>
  /\ last.element = root
  /\ StartsAt(1, Chars("<r>"))
  /\ \E q \in 5..Len(text) :
       /\ StartsAt(q, Chars("<a>"))
       /\ \A j \in 4..(q - 1) : text[j] \in Whitespace
  /\ error = ALI_ERROR_NONE
  /\ Len(elements) = 3

\* the line endings of a run: every CR, and every LF not behind a CR
LineEndings(run) ==
  Cardinality({k \in 1..Len(run) :
                 \/ run[k] = "\r"
                 \/ run[k] = "\n" /\ (k = 1 \/ run[k - 1] # "\r")})

\* C21: skip_whitespace adds to the line number of the frame the number of
\* line endings of the run it skips, where a lone CR, a lone LF and a CR LF
\* pair count as one line ending each.
C21_LineEndingsCounted ==
  EnteredBehindRun =>
    elements[2].line_number
      = last.pre.elements[1].line_number + LineEndings(TheRun)

\* where the first CDATA section of the document opens and closes
CdataOpen == Min({q \in 1..Len(text) : StartsAt(q, Chars("<![CDATA["))})
CdataClose ==
  Min({q \in (CdataOpen + 9)..Len(text) : StartsAt(q, Chars("]]>"))})

\* the document is one element x whose text holds one CDATA section and no
\* reference, and the call is the first one after ali_open: "^e%s" on the
\* root, into the buffer s
ReadsCdataOfX ==
  /\ AliInReturned
  /\ BeganClear
  /\ last.pre.asked = <<>>
  /\ last.element = root
  /\ TheQuery.format = Chars("^e%s")
  /\ TheQuery.args[3] = PtrArg("s")
  /\ StartsAt(1, Chars("<x>"))
  /\ \E q \in 4..Len(text) : StartsAt(q, Chars("<![CDATA["))
  /\ \E q \in 4..Len(text) : q >= CdataOpen + 9 /\ StartsAt(q, Chars("]]>"))
  /\ \E q \in 4..Len(text) :
       /\ q >= CdataClose + 3
       /\ StartsAt(q, Chars("</x>"))
       /\ \A j \in (4..(CdataOpen - 1)) \cup ((CdataClose + 3)..(q - 1)) :
            text[j] \notin {"<", "&", "\r", "\n", "\t"}

\* the text of x with the delimiters of the section taken out
TextAroundCdata ==
  SubSeq(text, 4, CdataOpen - 1)
    \o SubSeq(text, CdataOpen + 9, CdataClose - 1)
    \o SubSeq(text, CdataClose + 3,
              Min({q \in (CdataClose + 3)..Len(text) : text[q] = "<"}) - 1)

\* C22: decoding the text of an element copies the body of a CDATA section
\* as it stands, from behind '<![CDATA[' to the first ']]>', with none of
\* the characters of the delimiters, and goes on behind the ']]>'.
C22_CdataVerbatim ==
  ReadsCdataOfX =>
    /\ error = ALI_ERROR_NONE
    /\ dest["s"].s = TextAroundCdata

\* the first call after ali_open was "^e%Ns" on the root with a width N of
\* one digit, into the buffer s
ReadsWithWidth ==
  /\ AliInReturned
  /\ BeganClear
  /\ last.pre.asked = <<>>
  /\ last.element = root
  /\ Len(TheQuery.format) = 5
  /\ SubSeq(TheQuery.format, 1, 3) = Chars("^e%")
  /\ TheQuery.format[4] \in Digits \ {"0"}
  /\ TheQuery.format[5] = "s"
  /\ TheQuery.args[3] = PtrArg("s")

\* the width of that conversion: the dest_size that decode_string is given,
\* the size of the caller's buffer without the terminating NUL
TheWidth == DigitVal(TheQuery.format[4])

\* C23: a conversion into a buffer of the caller writes no more content
\* bytes than dest_size allows for, and the NUL behind them, for every
\* content, references to characters of more than one byte included.
C23_WithinDestSize ==
  ReadsWithWidth => Len(dest["s"].s) <= TheWidth

\* C24: the markup cache of every frame holds between 0 and
\* ali_element_max entries: read_one_markup records no entry when
\* ali_element_max are pending.
C24_CacheBounded ==
  \A k \in 1..Len(elements) :
    /\ elements[k].count \in 0..ali_element_max
    /\ Len(elements[k].markup_name) <= ali_element_max

\* parse_input_format is at the end of its format with entry i of the
\* current frame read last: its next step is remove_markup(frame, i)
Removes(i) ==
  /\ ~crashed
  /\ calls # <<>>
  /\ top.phase = "parse"
  /\ F(top, 0) = NUL
  /\ ~top.element_wanted
  /\ current # 0
  /\ elements[current].last_markup_read = i
  /\ i < elements[current].count
  /\ elements[current].count <= ali_element_max
  /\ error = ALI_ERROR_NONE

\* a sequence without its j-th member
Without(seq, j) ==
  [k \in 1..(Len(seq) - 1) |-> IF k < j THEN seq[k] ELSE seq[k + 1]]

\* C25: remove_markup(frame, i) with 0 <= i < count takes entry i out of
\* the cache: count is one less and the names, lengths and kinds are those
\* of before without the i-th, in the same order, for every count from 1 to
\* ali_element_max.
C25_RemovesTheEntry ==
  [][\A i \in 0..(ali_element_max - 1) :
       (Removes(i) /\ error' = ALI_ERROR_NONE /\ ~crashed') =>
         /\ Len(elements') >= current
         /\ elements'[current].count = elements[current].count - 1
         /\ elements'[current].markup_name
              = Without(elements[current].markup_name, i + 1)
         /\ elements'[current].markup_length
              = Without(elements[current].markup_length, i + 1)
         /\ elements'[current].markup_type
              = Without(elements[current].markup_type, i + 1)]_vars

\* the position just behind the element whose name is at n: behind its
\* '/>' or behind the '>' of its end tag
EndOf(n) ==
  IF at(TagEnd(n) - 1) = "/" THEN TagEnd(n) + 1
  ELSE TagEnd(Min(Balancing(n))) + 1

\* the document has elements and text only
PlainMarkup ==
  \A k \in 1..Len(text) : at(k) = "<" => at(k + 1) \notin {"!", "?"}

\* this step pops frames, the outermost of them that of a real element that
\* is complete, and raises no error
Pops ==
  /\ PlainMarkup
  /\ Len(elements') >= 1
  /\ Len(elements') < Len(elements)
  /\ \A k \in 1..Len(elements') : elements'[k].element = elements[k].element
  /\ elements[Len(elements') + 1].element_type = tag_element
  /\ Complete(elements[Len(elements') + 1].name)
  /\ error = ALI_ERROR_NONE
  /\ error' = ALI_ERROR_NONE
  /\ ~crashed'

\* C26: when the frame of an element is popped, the cursor of its parent
\* is left just behind the end tag of that element, or behind its '/>',
\* so that the siblings behind it are still there to be read.
C26_ParentBehindEndTag ==
  [][Pops => elements'[Len(elements')].pos
               = EndOf(elements[Len(elements') + 1].name)]_vars

\* a query is in flight
InFlight == calls # <<>> /\ ~crashed

\* C27: every ali_in in flight returns: a '%F' loop calls its callback
\* finitely often when each invocation of the callback makes finitely many
\* calls, also when the callback reads the element's own content with '%d'
\* while child markup of the element stays unconsumed.
C27_LoopTerminates == InFlight ~> ~InFlight

\* the step runs into a longjmp(doc->environment, ...): in parse_input_format,
\* in the test that ends the do-while of '%F', in the frames ali_in closes
\* before its setjmp, or in an ali_is_element_done the host calls
Jumped ==
  \/ /\ ParseStep
     /\ \E r \in {parse_step(M, top)} : r.m.jumped /\ ~r.m.crashed
  \/ /\ CallbackReturn
     /\ \E r \in {callback_returned(M, top)} : r.m.jumped /\ ~r.m.crashed
  \/ \E element \in Refs :
        /\ \E q \in 1..Len(queries) : AliIn(element, q)
        /\ \E r \in {ali_in(M, element)} : r.m.jumped /\ ~r.m.crashed
  \/ \E element \in Refs :
        /\ AliIsElementDone(element)
        /\ elements[current].element = element
        /\ \E r \in {ali_is_element_done(M)} : r.m.jumped /\ ~r.m.crashed

\* doc->environment was saved by the innermost ali_in that is in flight
InnermostTarget ==
  /\ calls # <<>>
  /\ environment = [id |-> top.id, depth |-> Len(calls)]

\* C28: whenever a longjmp is raised, the jump target saved in the document
\* belongs to the innermost ali_in that is still in flight, also for queries
\* nested in a %F callback and for an ali_is_element_done that the host
\* calls between queries.
C28_JumpTargetInFlight == [][Jumped => InnermostTarget]_vars

\* an ali_in(doc, ref, "^e%F", ...) that began without an error on a frame
\* of the stack has returned without an error, its callback having run
LoopReturned ==
  /\ AliInReturned
  /\ TheQuery.format = Chars("^e%F")
  /\ BeganClear
  /\ NamedFrame # 0
  /\ ret # 0
  /\ error = ALI_ERROR_NONE

\* C29: when ali_in(doc, ref, "^e%F", ...) has returned without an error,
\* the frame pushed for the matched element is gone and the current frame is
\* the frame of ref again, at the depth it had, whatever the callback did,
\* also when it entered child elements with '^e' and did not close them.
C29_LoopUnwound ==
  LoopReturned =>
    /\ Len(elements) = NamedFrame
    /\ current = NamedFrame
    /\ elements[current].element = last.element

\* the synthetic root frame is the current frame
AtRoot == root # 0 /\ current = 1 /\ elements[1].parent = 0

\* the step pops up a level at a '^' that no known letter follows, while the
\* current frame is not the one the query names
PopsUp ==
  /\ ParseStep
  /\ F(top, 0) = "^"
  /\ F(top, 1) \notin {"^", "e", "a", "o", "*"}
  /\ elements[current].last_markup_read = ali_element_none
  /\ elements[current].element # top.element

\* the step ends the do-while of a '%F' and hands the cursor of the current
\* frame to the frame below it
EndsLoop ==
  /\ CallbackReturn
  /\ \E d \in {ali_is_element_done(
                  [M EXCEPT !.els[M.cur].new_element = FALSE])} :
        /\ ~d.m.jumped /\ d.done
        /\ ~skip_end_tag(d.m, d.m.cur).jumped

\* C30: between ali_open and ali_close the root frame stays at the bottom
\* of the stack: no step of an ali_in, whatever its format and the reference
\* it was given, pops the root frame or looks for a frame below it.
C30_RootStays ==
  /\ [][AtRoot => ~(PopsUp \/ EndsLoop)]_vars
  /\ [](root # 0 => Len(elements) >= 1 /\ elements[1].parent = 0)

\* the markup items in the cache of frame e, each known by the position of
\* its name
Cached(e) == {e.markup_name[k] : k \in 1..Len(e.markup_name)}

\* the last position frame e has enumerated markup at; a frame that has
\* enumerated nothing yet points at its own name
Enumerated(e) ==
  IF e.last_markup_name = e.name THEN e.name - 1 ELSE e.last_markup_name

\* C31: within one frame the cache never holds the same markup item twice,
\* and an item that enters the cache lies behind all markup the frame has
\* enumerated before: no item, consumed or not, is enumerated a second time,
\* whatever the order of the queries.
C31_EnumeratedOnce ==
  /\ [](\A i \in 1..Len(elements) :
          Cardinality(Cached(elements[i])) = Len(elements[i].markup_name))
  /\ [][\A i \in 1..Len(elements) :
          (i <= Len(elements') /\ elements'[i].element = elements[i].element)
            => \A p \in Cached(elements'[i]) \ Cached(elements[i]) :
                  p > Enumerated(elements[i])]_vars

\* C32: while a document is open its frames form a stack: the bottom frame
\* is the synthetic root, every other frame names the frame directly beneath
\* it as its parent, the references grow from the bottom to the top, and the
\* current element is the top frame.
C32_FramesFormStack ==
  root # 0 =>
    /\ Len(elements) >= 1
    /\ elements[1].element = root
    /\ elements[1].parent = 0
    /\ \A i \in 2..Len(elements) :
         /\ elements[i].parent = elements[i - 1].element
         /\ elements[i].element > elements[i - 1].element
    /\ current = Len(elements)

\* the references of the open frames, bottom first
OpenRefs == [i \in 1..Len(elements) |-> elements[i].element]

\* C33: the references come from a 16-bit counter that starts at 2 and is
\* incremented at every push; however many frames have been pushed before,
\* no open frame has reference 0 or 1 and no two open frames share a
\* reference.
C33_ReferencesDistinct ==
  /\ \A i \in 1..Len(elements) : OpenRefs[i] \notin {0, 1}
  /\ \A i, j \in 1..Len(elements) : OpenRefs[i] = OpenRefs[j] => i = j

\* the step is the start of an ali_in that names an open frame beneath the
\* current one, the error state being clear
NamesLower(element) ==
  /\ \E q \in 1..Len(queries) : AliIn(element, q)
  /\ error = ALI_ERROR_NONE
  /\ find_element(elements, element) # 0
  /\ find_element(elements, element) < current

\* C34: an ali_in that names an open frame other than the current one first
\* pops every frame above it, so that parsing starts with that frame as the
\* current one; the frames at and beneath it all stay, and the references of
\* the popped frames are found no more.
C34_PopsDownToNamed ==
  [][\A element \in Refs :
       NamesLower(element) =>
         LET n == find_element(elements, element)
         IN /\ ~crashed'
            /\ Len(calls') = Len(calls) + 1
            /\ current' = n
            /\ Len(elements') = n
            /\ \A i \in 1..n : elements'[i].element = elements[i].element
            /\ \A i \in (n + 1)..Len(elements) :
                 find_element(elements', elements[i].element) = 0]_vars

\* the scan read_one_markup makes for the next markup of frame i
next_markup(m, i) ==
  find_next_markup(IF m.els[i].type_of_last_markup_read # tag_none
                     THEN finish_content(m, i) ELSE m,
                   i, m.els[i].pos)

\* the scans of the current frame, not yet found exhausted, that stop at
\* the "</" of the element
EndTagScans ==
  IF crashed \/ current = 0 \/ current > Len(elements) THEN {}
  ELSE IF \/ elements[current].element_type # tag_element
          \/ elements[current].elements_read
    THEN {}
  ELSE {f \in {next_markup(M, current)} :
          /\ ~f.m.jumped
          /\ f.ret = "false"
          /\ ~(at(f.m.els[current].pos) = "/"
                 /\ at(f.m.els[current].pos + 1) = ">")}

\* the entries frame i gains in this step, when the frame stays
Gains(i) ==
  IF i <= Len(elements') /\ elements'[i].element = elements[i].element
    THEN Cached(elements'[i]) \ Cached(elements[i])
  ELSE {}

\* C35: when read_one_markup reaches the end tag of the frame it reports no
\* more markup and puts the cursor back where the scan started, so that a
\* second call at once returns the same and leaves the same state; and once
\* a frame was found exhausted (elements_read) no query adds an entry to
\* its cache.
C35_ExhaustedStays ==
  /\ [](\A f \in EndTagScans :
          /\ read_one_markup(M, current) = [m |-> f.m, more |-> FALSE]
          /\ f.m.els[current].pos
               \in {elements[current].pos, TagEnd(elements[current].name) + 1}
          /\ read_one_markup(f.m, current) = [m |-> f.m, more |-> FALSE])
  /\ [][\A i \in 1..Len(elements) :
          elements[i].elements_read => Gains(i) = {}]_vars

(***************************************************************************)
(* skip_content on its own                                                 *)
(***************************************************************************)
\* documents whose root element is called a: children of another name,
\* elements called a nested in it, a comment that reads like tags, children
\* whose names begin with a, and character data with "/>" in it
SkipDocs ==
  { Chars("<a><b>1</b>2</a>"),
    Chars("<a><a>1</a><a><a>2</a></a>3</a>"),
    Chars("<a><!-- </a> <a> -->1</a>"),
    Chars("<a><ab>1</ab><abc/>2</a>"),
    Chars("<a>1/>2</a>") }

\* hosts that enter the element a, and the elements called a in it
SkipCases ==
  {[file |-> d,
    queries |-> << Query("^e", <<IntArg("0"), StrArg("a")>>) >>,
    file_in |-> TRUE, allocated |-> TRUE, options |-> ALI_OPTION_NONE] :
     d \in SkipDocs}

\* skip_content(element, element->name, element->length) for the current
\* frame with its cursor at pos
SkipContent(pos) ==
  /\ HostRuns
  /\ current # 0
  /\ elements[current].element_type = tag_element
  /\ UNCHANGED <<beat, list, game, overrun, options, encoding, root, text, queries,
                 uninit, environment, ncalls>>
  /\ \E m \in {skip_content([M EXCEPT !.els[current].pos = pos], current,
                            elements[current].name,
                            elements[current].length)} :
       /\ ~m.jumped
       /\ Store(m)
       /\ Returns(Len(calls) + 1,
                  IF m.els[current].pos # pos THEN 1 ELSE 0,
                  [op |-> "skip_content", id |-> pos,
                   element |-> elements[current].element, query |-> 0,
                   pre |-> Snapshot])

\* the runs of the reader up to one skip_content
SkipNext ==
  \/ \E element \in Refs : \E q \in 1..Len(queries) :
       last.op # "skip_content" /\ AliIn(element, q)
  \/ last.op # "skip_content" /\ ParseStep
  \/ \E pos \in 1..Len(text) : last.op # "skip_content" /\ SkipContent(pos)

SkipInit == Opened(SkipCases) /\ Idle
SkipSpec == SkipInit /\ [][SkipNext]_vars

\* the "-->" that ends the comment starting at s
CommentEnd(s) ==
  Min({q \in (s + 4)..(NulPos + 2) : q > NulPos \/ StartsAt(q, Chars("-->"))}) + 2

\* position k is in a comment, behind its first character
InComment(k) ==
  \E s \in 1..(k - 1) : StartsAt(s, Chars("<!--")) /\ k <= CommentEnd(s)

\* the tags of the document that are not text of a comment
RealTags == {k \in 1..Len(text) : at(k) = "<" /\ ~InComment(k)}

\* position k is in a tag or in a comment, behind its first character
InMarkup(k) ==
  \/ InComment(k)
  \/ \E s \in RealTags : s < k /\ k <= TagEnd(s)

\* the start tags and the end tags between a and b
RealOpen(a, b) == OpenTags(a, b) \cap RealTags
RealClose(a, b) == CloseTags(a, b) \cap RealTags

\* the '<' of the end tag of the element whose name is at n
OwnEnd(n) ==
  Min({q \in RealClose(TagEnd(n), Len(text)) :
         Cardinality(RealOpen(TagEnd(n), q - 1))
           = Cardinality(RealClose(TagEnd(n), q - 1))})

\* the positions in the content of the element whose name is at n that are
\* in none of its children and not inside a tag or a comment
InContent(n) ==
  {p \in (TagEnd(n) + 1)..OwnEnd(n) :
     /\ ~InMarkup(p)
     /\ Cardinality(RealOpen(TagEnd(n), p - 1))
          = Cardinality(RealClose(TagEnd(n), p - 1))}

\* skip_content has run for the current frame from a position in the
\* content of its element
Skipped ==
  /\ ~crashed
  /\ last.op = "skip_content"
  /\ elements[current].element = last.element
  /\ last.id \in InContent(elements[current].name)

\* C36: skip_content, started anywhere in the content of a well-formed
\* element, stops with the cursor at the '<' of the end tag of that element:
\* with elements of the same name nested in it, with comments that read like
\* tags, with children whose names begin with its name, and with character
\* data that holds "/>".
C36_StopsAtOwnEndTag ==
  Skipped => elements[current].pos = OwnEnd(elements[current].name)

\* an ali_in with an '^e' and two '^a%d' behind it has returned to the host
\* with success
AttributesRead ==
  /\ AliInReturned
  /\ calls = <<>>
  /\ TheQuery.format = Chars("^e^a%d^a%d")
  /\ ret # 0
  /\ error = ALI_ERROR_NONE
  /\ NamedFrame # 0

\* the names the query gives: that of the element, and those of attributes
ElementName == Chars(TheQuery.args[CHOOSE k \in NameArgs : \A j \in NameArgs : k <= j].v)
AttributeNames ==
  {Chars(TheQuery.args[k].v) :
     k \in {j \in NameArgs : \E i \in NameArgs : i < j}}

\* the attributes in the start tag of the element of frame e, by the
\* position of their names, and those of them that a query has named
Attributes(e) ==
  {p \in (e.name + e.length)..TagEnd(e.name) :
     text[p - 1] = " " /\ text[p] \in NameStartChar}
Named(e) ==
  {p \in Attributes(e) : \E name \in AttributeNames : p \in NamePositions(name)}

\* an '^a%d' for an attribute not read before has returned, on the frame
\* that the ali_in before it, an "^e^a%d^a%d", had left open
ReadLater ==
  /\ AliInReturned
  /\ calls = <<>>
  /\ TheQuery.format = Chars("^a%d")
  /\ last.pre.asked # <<>>
  /\ last.pre.asked[Len(last.pre.asked)] # 0
  /\ \E before \in {queries[last.pre.asked[Len(last.pre.asked)]]} :
       /\ before.format = Chars("^e^a%d^a%d")
       /\ \A k \in 1..Len(before.args) :
            before.args[k].t = "str" => Chars(before.args[k].v) # TargetName
  /\ last.pre.error = ALI_ERROR_NONE
  /\ last.pre.current = 2
  /\ last.element = last.pre.elements[2].element

\* C37: after an ali_in whose format has '^a' directives behind an '^e'
\* ("^e^a%d^a%d") the frame pushed for the element is still open: it is the
\* current frame, on top of the frame the call named; the attributes that
\* were read, and no others, are gone from its cache; the element is still
\* in the cache of the parent frame; and the value returned is the reference
\* of the pushed frame, which later queries find.
C37_ElementStaysOpen ==
  /\ ReadLater => ret # 0 /\ error = ALI_ERROR_NONE /\ current = 2
  /\ AttributesRead =>
      /\ current = NamedFrame + 1
      /\ Len(elements) = current
      /\ elements[current].parent = last.element
      /\ elements[current].element_type = tag_element
      /\ elements[current].name \in NamePositions(ElementName)
      /\ Named(elements[current]) \cap Cached(elements[current]) = {}
      /\ \A p \in Attributes(elements[current]) \ Named(elements[current]) :
           p <= Enumerated(elements[current]) => p \in Cached(elements[current])
      /\ elements[current].name \in Cached(elements[NamedFrame])
      /\ ret = elements[current].element
      /\ find_element(elements, ret) = current


\* the second query has read k and w, and h, enumerated on the way to k, is
\* the one attribute left in the cache of the frame of a
C37_Witness ==
  /\ AttributesRead
  /\ last.query = 2
  /\ Cached(elements[current]) \subseteq NamePositions(Chars("h"))
  /\ Cardinality(Cached(elements[current])) = 1
  /\ dest.v.n = 1

(***************************************************************************)
(* List<T> (List.h)                                                        *)
(***************************************************************************)
\* the calls of member functions that are followed, and the UID()s of the
\* objects the game keeps in lists
MaxOps == 4
MaxUid == 2
Uids == 1..MaxUid

\* new Element<T>(o, n, p)
Element(o, n, p) == [obj |-> o, next |-> n, prev |-> p, freed |-> FALSE]

\* the list a member function works on
This == ListOf(list.heap, list.head, list.tail, list.listsize)

\* while (curr->getObj()->UID() != uid && curr) curr = curr->next;
\* the node the loop ends at, whether it read curr->getObj() with curr NULL,
\* and whether it read a node that was deleted before
RECURSIVE walk(_, _, _)
walk(heap, curr, uid) ==
  IF curr = 0 THEN [curr |-> 0, null |-> TRUE, stale |-> FALSE]
  ELSE IF heap[curr].obj = uid
    THEN [curr |-> curr, null |-> FALSE, stale |-> heap[curr].freed]
  ELSE Only({ [r EXCEPT !.stale = @ \/ heap[curr].freed] :
              r \in {walk(heap, heap[curr].next, uid)} })

\* what a member function leaves: the list, the value returned, whether a
\* NULL node was read, and whether the call had undefined behaviour (a read
\* through NULL, or the use of a node deleted before)
Outcome(l, result, null, undefined) ==
  [l |-> l, result |-> result, null |-> null, undefined |-> undefined]

\* a node deleted before is among those the statements touch
Stale(heap, nodes) == \E k \in nodes \ {0} : heap[k].freed

\* if (curr->prev) curr->prev->next = curr->next;
\* if (curr->next) curr->next->prev = curr->prev;   and listsize--
unlink(l, curr) ==
  LET p == l.heap[curr].prev
      n == l.heap[curr].next
  IN [l EXCEPT !.heap = [k \in 1..Len(l.heap) |->
                           IF k = p /\ k = n
                             THEN [@[k] EXCEPT !.next = n, !.prev = p]
                           ELSE IF k = p THEN [@[k] EXCEPT !.next = n]
                           ELSE IF k = n THEN [@[k] EXCEPT !.prev = p]
                           ELSE @[k]],
               !.listsize = U32(@ + Wrap32 - 1)]

\* delete curr
delete(l, curr) == [l EXCEPT !.heap[curr].freed = TRUE]

lookElem(l, uid) ==
  Only({ Outcome(l, w.curr, w.null, w.null \/ w.stale) :
         w \in {walk(l.heap, l.head, uid)} })

lookObj(l, uid) ==
  Only({ Outcome(l, IF w.curr = 0 THEN 0 ELSE l.heap[w.curr].obj, w.null,
                 w.null \/ w.stale) :
         w \in {walk(l.heap, l.head, uid)} })

pinchElem(l, uid) ==
  Only({ IF w.curr = 0 THEN Outcome(l, 0, w.null, w.null \/ w.stale)
         ELSE Outcome(unlink(l, w.curr), w.curr, w.null,
                      w.null \/ w.stale
                        \/ Stale(l.heap, {w.curr, l.heap[w.curr].prev,
                                          l.heap[w.curr].next})) :
         w \in {walk(l.heap, l.head, uid)} })

pinchObj(l, uid) ==
  Only({ IF w.curr = 0 THEN Outcome(l, 0, w.null, w.null \/ w.stale)
         ELSE Outcome(delete(unlink(l, w.curr), w.curr),
                      l.heap[w.curr].obj, w.null,
                      w.null \/ w.stale
                        \/ Stale(l.heap, {w.curr, l.heap[w.curr].prev,
                                          l.heap[w.curr].next})) :
         w \in {walk(l.heap, l.head, uid)} })

\* returns false (0) or true (1)
removeElem(l, uid) ==
  Only({ IF w.curr = 0 THEN Outcome(l, 0, w.null, w.null \/ w.stale)
         ELSE Outcome(delete(unlink(l, w.curr), w.curr), 1, w.null,
                      w.null \/ w.stale
                        \/ Stale(l.heap, {w.curr, l.heap[w.curr].prev,
                                          l.heap[w.curr].next})) :
         w \in {walk(l.heap, l.head, uid)} })

\* Element<T>::clear deletes obj only when obj is NULL, that is, never
removeObj(l, uid) == removeElem(l, uid)

push(l, o) ==
  IF l.head = 0
    THEN Outcome([l EXCEPT !.heap = Append(@, Element(o, 0, 0)),
                           !.head = Len(l.heap) + 1,
                           !.tail = Len(l.heap) + 1,
                           !.listsize = U32(@ + 1)],
                 0, FALSE, FALSE)
  ELSE Outcome([l EXCEPT !.heap = Append([@ EXCEPT ![l.tail].next = Len(l.heap) + 1],
                                         Element(o, 0, l.tail)),
                         !.tail = Len(l.heap) + 1,
                         !.listsize = U32(@ + 1)],
               0, FALSE, Stale(l.heap, {l.tail}))

popObj(l) ==
  IF l.head = 0 THEN Outcome(l, 0, FALSE, FALSE)
  ELSE LET next == l.heap[l.head].next
       IN Outcome(delete([l EXCEPT !.head = next,
                                   !.tail = IF next = 0 THEN 0 ELSE @,
                                   !.listsize = U32(@ + Wrap32 - 1)],
                         l.head),
                  l.heap[l.head].obj, FALSE, Stale(l.heap, {l.head}))

\* the member functions that look a uid up
Lookups == {"lookObj", "lookElem", "pinchObj", "pinchElem", "removeObj",
            "removeElem"}

Member(op, l, uid) ==
  CASE op = "lookObj" -> lookObj(l, uid)
    [] op = "lookElem" -> lookElem(l, uid)
    [] op = "pinchObj" -> pinchObj(l, uid)
    [] op = "pinchElem" -> pinchElem(l, uid)
    [] op = "removeObj" -> removeObj(l, uid)
    [] op = "removeElem" -> removeElem(l, uid)
    [] op = "push" -> push(l, uid)
    [] op = "popObj" -> popObj(l)

\* the call returns with what the member function leaves; a call with
\* undefined behaviour may also end the process
Called(op, uid, r) ==
  /\ ~list.fault
  /\ Len(list.heap) + list.calls < MaxOps
  /\ \E fault \in (IF r.undefined THEN BOOLEAN ELSE {FALSE}) :
       list' = [heap |-> r.l.heap, head |-> r.l.head, tail |-> r.l.tail,
                listsize |-> r.l.listsize, fault |-> fault, op |-> op,
                uid |-> uid, result |-> r.result, null |-> r.null,
                calls |-> list.calls + (IF op = "push" THEN 0 ELSE 1),
                pre |-> This]
  /\ UNCHANGED <<document, game>>

Lookup(op, uid) == Called(op, uid, Member(op, This, uid))
Push(o) == Called("push", o, push(This, o))
PopObj == Called("popObj", 0, popObj(This))

ListNext ==
  \/ \E op \in Lookups : \E uid \in Uids : Lookup(op, uid)
  \/ \E o \in Uids : Push(o)
  \/ PopObj

\* List<T>::List() sets head, tail and pointer and leaves listsize as the
\* memory holds it: 0 in an object with static storage
NewLists == {[NoList EXCEPT !.listsize = n] : n \in UninitValues}

\* a list of the game, from its construction on, while the XML reader has
\* no document
ListInit ==
  /\ Opened({c \in OpenCases : c.file = <<>> /\ ~c.file_in})
  /\ list \in NewLists
  /\ game = NoGame
ListSpec == ListInit /\ [][ListNext]_vars

\* the nodes of list l, from head along next, and the uids they carry
RECURSIVE Chain(_, _)
Chain(heap, curr) ==
  IF curr = 0 THEN {} ELSE {curr} \cup Chain(heap, heap[curr].next)
Carried(l) == {l.heap[k].obj : k \in Chain(l.heap, l.head)}

\* one of the six member functions has run with a uid that no element of
\* the list carried
AbsentLookedUp ==
  /\ list.op \in Lookups
  /\ list.uid \notin Carried(list.pre)

\* C38: lookObj, lookElem, pinchObj, pinchElem, removeObj and removeElem,
\* called with a uid that no element of the list carries, on an empty list
\* too, return NULL or false, dereference no null node, and leave head,
\* tail, listsize and the links of the list as they were.
C38_AbsentUidIsHarmless ==
  AbsentLookedUp =>
    /\ ~list.fault
    /\ ~list.null
    /\ list.result = 0
    /\ This = list.pre

(***************************************************************************)
(* GameManager: the message queue (GameManager.cpp, Block.cpp)             *)
(***************************************************************************)
\* the Msg objects and the game objects that are followed
MaxMsgs == 3
MaxObjs == 2

\* Msg::type: 1, which ReadMsgs keeps to itself, and another
MsgTypes == {1, 2}

\* the classes of GameObject
Classes == {"Block", "PlayerCharacter"}

\* delete m for the Msg heap[m]; a delete of a Msg deleted before is
\* undefined behaviour
delete_msg(heap, m) ==
  [heap EXCEPT ![m].deleted = @ + 1,
               ![m].misused = @ \/ heap[m].deleted > 0]

\* a read of m->type; on a Msg deleted before it is undefined behaviour
read_msg(heap, m) == [heap EXCEPT ![m].misused = @ \/ heap[m].deleted > 0]

\* obj->SendMsg(m): Block::SendMsg switches on msg->type and ends with
\* delete msg; PlayerCharacter::SendMsg does nothing
SendMsgTo(class, heap, m) ==
  IF class = "Block" THEN delete_msg(read_msg(heap, m), m) ELSE heap

\* GameManager::SendToAll(m), from the k-th object of objs on
RECURSIVE SendToAll(_, _, _, _)
SendToAll(objs, heap, m, k) ==
  IF k > Len(objs) THEN heap
  ELSE SendToAll(objs, SendMsgTo(objs[k], heap, m), m, k + 1)

\* the loop of GameManager::ReadMsgs over the queue msgs: the heap it leaves
RECURSIVE read_msgs(_, _, _)
read_msgs(objs, heap, msgs) ==
  IF msgs = <<>> THEN heap
  ELSE Only({ read_msgs(objs,
                        delete_msg(IF h.type = 1 THEN h.heap
                                   ELSE SendToAll(objs, h.heap, m, 1), m),
                        Tail(msgs)) :
              h \in {[heap |-> read_msg(heap, Head(msgs)),
                      type |-> heap[Head(msgs)].type]},
              m \in {Head(msgs)} })

\* Mgr.addNewObject(new Block(...)) or (new PlayerCharacter(...))
AddNewObject(class) ==
  /\ ~game.fault
  /\ Len(game.objs) < MaxObjs
  /\ game' = [game EXCEPT !.objs = Append(@, class), !.op = "addNewObject"]
  /\ UNCHANGED <<document, list>>

\* m = new Msg; m->type = type; Mgr.SendMsg(m)
SendMsg(type) ==
  /\ ~game.fault
  /\ Len(game.heap) < MaxMsgs
  /\ game' = [game EXCEPT
                !.heap = Append(@, [type |-> type, deleted |-> 0,
                                    misused |-> FALSE]),
                !.msgs = Append(@, Len(game.heap) + 1),
                !.op = "SendMsg"]
  /\ UNCHANGED <<document, list>>

\* Mgr.ReadMsgs(): every queued Msg is popped and handled in turn; when a
\* Msg was used after its delete the process may end
ReadMsgs ==
  /\ ~game.fault
  /\ \E heap \in {read_msgs(game.objs, game.heap, game.msgs)} :
       \E fault \in (IF \E m \in 1..Len(heap) : heap[m].misused
                       THEN BOOLEAN ELSE {FALSE}) :
          game' = [game EXCEPT !.heap = heap,
                               !.handled = game.msgs,
                               !.msgs = <<>>,
                               !.fault = fault,
                               !.op = "ReadMsgs"]
  /\ UNCHANGED <<document, list>>

MsgNext ==
  \/ \E class \in Classes : AddNewObject(class)
  \/ \E type \in MsgTypes : SendMsg(type)
  \/ ReadMsgs

MsgInit ==
  /\ Opened({c \in OpenCases : c.file = <<>> /\ ~c.file_in})
  /\ Idle

\* the game from its start on, while the XML reader has no document
MsgSpec == MsgInit /\ [][MsgNext]_vars

\* ReadMsgs has just run
MsgsRead == game.op = "ReadMsgs"

\* C39: every Msg given to GameManager::SendMsg is handled by the next
\* ReadMsgs, in the order sent, and deleted exactly once: no handler deletes
\* a Msg that ReadMsgs or another handler still uses or deletes again; and
\* after ReadMsgs the queue is empty.
C39_DeletedOnce ==
  MsgsRead =>
    /\ ~game.fault
    /\ game.msgs = <<>>
    /\ \A k \in 1..Len(game.handled) :
         /\ game.heap[game.handled[k]].deleted = 1
         /\ ~game.heap[game.handled[k]].misused
    /\ \A j, k \in 1..Len(game.handled) :
         j < k => game.handled[j] < game.handled[k]
    /\ \A m \in 1..Len(game.heap) : game.heap[m].deleted >= 1

====
